---- MODULE Spec2Model ----
(***************************************************************************)
(* Model of the hot-desk reservation engine.                               *)
(*                                                                         *)
(* The bookings table and its exclusion constraint come from the bookings  *)
(* migration, the repository operations from the bookings repository, and  *)
(* the service operations (create, check-in, end-early, no-show sweep)     *)
(* from the Go listings of IMPLEMENTATION_PLAN.md, the only place where    *)
(* the repository states them.  Instants are seconds since a Monday        *)
(* 00:00:00 in the single fixed time zone.                                 *)
(***************************************************************************)
EXTENDS Integers, Sequences, FiniteSets, TLC

\* ------------------------------------------------------------ constants

\* nil of *time.Time / *int
Nil == -1

HourS == 60 * 60
DayS == 24 * HourS

\* 30*time.Minute and 12*time.Hour of the duration check
MinDuration == 30 * 60
MaxDuration == 12 * HourS
\* "totalHours + duration.Hours() > 10"
DailyLimit == 10 * HourS
\* 15-minute check-in grace period
GracePeriod == 15 * 60
\* idempotency TTL
IdemTTL == 24 * HourS
MaxAltDesks == 5
MaxAltTimes == 3

\* ------------------------------------------------------------ bounds

\* requests the workers take on in one run
MaxRequests == 3
\* session rows the auth workers insert in one run
MaxSessions == 3

Procs == {1, 2}
Sweepers == {1}
Desks == {1, 2}
Users == {"u1"}
NoKey == ""
Keys == {"k1"}

\* instants the clock visits
NowPoints == {0, HourS + GracePeriod}
\* intervals a client asks for: 1h-3h, 2h-3h, 1h-2h
Intervals == {<<HourS, 3 * HourS>>, <<2 * HourS, 3 * HourS>>, <<HourS, 2 * HourS>>}

\* the creation race: three workers, pairwise intersecting intervals on one desk
RaceProcs == {1, 2, 3}
RaceDesks == {1}
RaceIntervals == {<<HourS, 3 * HourS>>, <<2 * HourS, 3 * HourS>>,
                  <<HourS, 2 * HourS + MinDuration>>}

\* keyed creation, one request after the other: a 6h and a 2h interval
IdemProcs == {1}
IdemDesks == {1}
IdemIntervals == {<<HourS, 7 * HourS>>, <<HourS, 3 * HourS>>}

FailProcs == {1}
FailIntervals == {<<HourS, 3 * HourS>>}
FailNows == {HourS + GracePeriod}

TTLProcs == {1}
TTLDesks == {1}
\* Tuesday 06:00-08:00, bookable before and after the first day has passed
TTLIntervals == {<<30 * HourS, 32 * HourS>>}
\* the last second of a record made at 0, its expiry, and the first second the cleanup
\* job deletes it in
TTLNows == {IdemTTL - 1, IdemTTL, IdemTTL + 1}

KeyRaceProcs == {1, 2}
KeyRaceDesks == {1}
KeyRaceIntervals == {<<HourS, 3 * HourS>>}

\* one worker taking every operation in turn, with the clock on the edges of the
\* check-in window of a 1h start: 0:45, 1:00, 1:15 and 1:16
SeqProcs == {1}
SeqNowPoints == {0, HourS - GracePeriod, HourS, HourS + GracePeriod, HourS + GracePeriod + 60}

\* the booking window: the clock in the middle of week 0, on its Sunday, at its last
\* second and at the first second of week 1; hour-long requests that start at the last
\* second of weeks 0, 1 and 2 and at the first second of the week after each
WeekS == 7 * DayS
WindowProcs == {1}
WindowDesks == {1}
WindowNows == {0, 2 * DayS + HourS, 6 * DayS + HourS, WeekS - 1, WeekS}
WindowStarts == {WeekS - 1, WeekS, 2 * WeekS - 1, 2 * WeekS, 3 * WeekS - 1, 3 * WeekS}

\* the daily limit: one holder, 9h, 2h and 1h on day 0, 2h across the midnight between
\* day 0 and day 1, and 10h on day 1
DailyProcs == {1}
DailyDesks == {1, 2}
DailyNows == {0, 2 * HourS}
DailyIntervals == {<<HourS, 10 * HourS>>, <<10 * HourS, 12 * HourS>>,
                   <<10 * HourS, 11 * HourS>>, <<23 * HourS, 25 * HourS>>,
                   <<25 * HourS, 35 * HourS>>}
DailyDays == {0, 1}

\* the daily-limit race: three workers, one holder, three adjacent 6h reservations of
\* one desk within day 0
LimitRaceProcs == {1, 2, 3}
LimitRaceDesks == {1}
LimitRaceIntervals == {<<HourS, 7 * HourS>>, <<7 * HourS, 13 * HourS>>,
                       <<13 * HourS, 19 * HourS>>}

\* the duration bounds: requests of 15min, exactly 30min, 2h, 10h, 13h and one whose end
\* lies before its start; modifications of the start alone and of the end alone
DurProcs == {1}
DurDesks == {1}
DurPoints == {HourS, HourS + 15 * 60, HourS + MinDuration, 3 * HourS, 13 * HourS, 14 * HourS}
DurIntervals == {<<HourS, HourS + 15 * 60>>, <<HourS, HourS + MinDuration>>,
                 <<HourS, 3 * HourS>>, <<3 * HourS, 13 * HourS>>,
                 <<HourS, 14 * HourS>>, <<3 * HourS, HourS>>}

\* moving a reservation: one worker, both desks
MoveProcs == {1}

\* the maintenance cascade: one worker, both desks, the clock before, inside and at the
\* end of the booked intervals
MaintProcs == {1}
MaintNows == {0, 2 * HourS, 3 * HourS}

\* suggestions: eight desks, one of them under maintenance from the start and one that
\* may go into maintenance; all requests are for desk 1
SuggProcs == {1}
SuggDesks == 1 .. 8
SuggMaintenance == {2}
SuggRequestDesks == {1}
SuggClosingDesks == {3}

\* overlapping sweeper runs against one worker
SweepProcs == {1}
SweepRuns == {1, 2}
SweepDesks == {1}
SweepIntervals == {<<HourS, 3 * HourS>>, <<2 * HourS, 3 * HourS>>}

\* ------------------------------------------------------------ state

VARIABLES
    bookings,    \* the bookings table: row id |-> row, ids 1..Len
    deskStatus,  \* desks.status
    idem,        \* idempotency_keys: key |-> cached response
    audit,       \* audit_logs as a multiset: <<entity id, action>> |-> count (2 = two or more)
    notified,    \* notifications emitted by the sweeper: id |-> count (2 = two or more)
    now,         \* the clock
    proc,        \* request-path workers
    sweep,       \* no-show sweeper runs: the rows still to visit, the rows whose
                 \* transaction failed in the cycle
    started,     \* requests accepted so far
    users,       \* users.status
    roles,       \* users.role
    sessions,    \* the sessions table: row id |-> row, a deleted row keeps its id
    authProc,    \* workers of the auth service
    issued,      \* history: refresh tokens handed to a client
    rotated,     \* history: refresh tokens a successful RefreshToken consumed
    loggedOut    \* history: tokens a finished LogoutAll covers, and their rotations

authVars == <<users, roles, sessions, authProc, issued, rotated, loggedOut>>
bookingVars == <<bookings, deskStatus, idem, audit, notified, proc, sweep, started>>
vars == <<bookings, deskStatus, idem, audit, notified, now, proc, sweep, started,
          users, roles, sessions, authProc, issued, rotated, loggedOut>>

Min(a, b) == IF a < b THEN a ELSE b
Max(a, b) == IF a > b THEN a ELSE b

\* ------------------------------------------------------------ bookings table

\* a freshly inserted row: status DEFAULT 'confirmed', the timestamps NULL
NewRow(desk, user, start, end) ==
    [desk |-> desk, user |-> user, start |-> start, end |-> end,
     status |-> "confirmed", checkedInAt |-> Nil, actualEnd |-> Nil,
     cancelledAt |-> Nil]

\* tstzrange(start, end) raises when start > end
RangeValid(s, e) == s <= e

\* an overlap test on closed ranges: ranges that only touch count as overlapping
RangesOverlapClosed(s1, e1, s2, e2) == s1 < e1 /\ s2 < e2 /\ s1 <= e2 /\ s2 <= e1

\* tstzrange && tstzrange on half-open ranges; an empty range overlaps nothing
RangesOverlap(s1, e1, s2, e2) == s1 < e1 /\ s2 < e2 /\ s1 < e2 /\ s2 < e1

\* an exclusion constraint without its WHERE clause
IndexEveryStatus(row) == row.status = row.status

\* WHERE (status NOT IN ('cancelled', 'no_show')) of the exclusion constraint
InExclusionIndex(row) == row.status \notin {"cancelled", "no_show"}

\* row i of tbl breaks no_overlapping_bookings
ViolatesExclusion(tbl, i) ==
    /\ InExclusionIndex(tbl[i])
    /\ \E j \in DOMAIN tbl :
          /\ j # i
          /\ InExclusionIndex(tbl[j])
          /\ tbl[j].desk = tbl[i].desk
          /\ RangesOverlap(tbl[i].start, tbl[i].end, tbl[j].start, tbl[j].end)

\* an INSERT on a table that lacks the exclusion constraint
InsertUnconstrained(tbl, desk, user, start, end) ==
    IF ~RangeValid(start, end)
        THEN [err |-> "storage", tbl |-> tbl, id |-> 0]
    ELSE [err |-> "ok", tbl |-> Append(tbl, NewRow(desk, user, start, end)),
          id |-> Len(tbl) + 1]

\* Repository.CreateBooking: one INSERT, refused by the exclusion constraint
RepoCreateBooking(tbl, desk, user, start, end) ==
    LET new == Append(tbl, NewRow(desk, user, start, end))
        id  == Len(tbl) + 1
    IN  IF ~RangeValid(start, end)
            THEN [err |-> "storage", tbl |-> tbl, id |-> 0]
        ELSE IF ViolatesExclusion(new, id)
            THEN [err |-> "conflict", tbl |-> tbl, id |-> 0]
        ELSE [err |-> "ok", tbl |-> new, id |-> id]

\* UpdateBookingInput with every pointer nil
NoUpdate ==
    [start |-> Nil, end |-> Nil, status |-> "", checkedInAt |-> Nil,
     actualEnd |-> Nil, cancelledAt |-> Nil]

\* an UPDATE whose new range is not checked against the other rows
UpdateUnconstrained(tbl, id, in) ==
    IF id \notin DOMAIN tbl
        THEN [err |-> "notfound", tbl |-> tbl]
    ELSE [err |-> "ok",
          tbl |-> [tbl EXCEPT ![id] =
                      [@ EXCEPT
                          !.start = IF in.start # Nil THEN in.start ELSE @,
                          !.end = IF in.end # Nil THEN in.end ELSE @,
                          !.status = IF in.status # "" THEN in.status ELSE @,
                          !.checkedInAt = IF in.checkedInAt # Nil THEN in.checkedInAt ELSE @,
                          !.actualEnd = IF in.actualEnd # Nil THEN in.actualEnd ELSE @,
                          !.cancelledAt = IF in.cancelledAt # Nil THEN in.cancelledAt ELSE @]]]

\* an UPDATE that reports the exclusion violation but keeps the row it wrote
UpdateNoRollback(tbl, id, in) ==
    LET r == UpdateUnconstrained(tbl, id, in)
    IN  IF r.err = "ok" /\ ViolatesExclusion(r.tbl, id)
            THEN [err |-> "conflict", tbl |-> r.tbl]
        ELSE r

\* an UPDATE that writes checked_in_at from the input even when the input leaves it nil
UpdateWritesCheckedIn(tbl, id, in) ==
    IF id \notin DOMAIN tbl
        THEN [err |-> "notfound", tbl |-> tbl]
    ELSE
        LET old == tbl[id]
            row == [old EXCEPT
                      !.start = IF in.start # Nil THEN in.start ELSE @,
                      !.end = IF in.end # Nil THEN in.end ELSE @,
                      !.status = IF in.status # "" THEN in.status ELSE @,
                      !.checkedInAt = in.checkedInAt,
                      !.actualEnd = IF in.actualEnd # Nil THEN in.actualEnd ELSE @,
                      !.cancelledAt = IF in.cancelledAt # Nil THEN in.cancelledAt ELSE @]
            new == [tbl EXCEPT ![id] = row]
        IN  IF ~RangeValid(row.start, row.end)
                THEN [err |-> "storage", tbl |-> tbl]
            ELSE IF ViolatesExclusion(new, id)
                THEN [err |-> "conflict", tbl |-> tbl]
            ELSE [err |-> "ok", tbl |-> new]

\* Repository.UpdateBooking: one UPDATE ... WHERE id = $n of the non-nil fields
RepoUpdateBooking(tbl, id, in) ==
    IF id \notin DOMAIN tbl
        THEN [err |-> "notfound", tbl |-> tbl]
    ELSE
        LET old == tbl[id]
            row == [old EXCEPT
                      !.start = IF in.start # Nil THEN in.start ELSE @,
                      !.end = IF in.end # Nil THEN in.end ELSE @,
                      !.status = IF in.status # "" THEN in.status ELSE @,
                      !.checkedInAt = IF in.checkedInAt # Nil THEN in.checkedInAt ELSE @,
                      !.actualEnd = IF in.actualEnd # Nil THEN in.actualEnd ELSE @,
                      !.cancelledAt = IF in.cancelledAt # Nil THEN in.cancelledAt ELSE @]
            new == [tbl EXCEPT ![id] = row]
        IN  IF ~RangeValid(row.start, row.end)
                THEN [err |-> "storage", tbl |-> tbl]
            ELSE IF ViolatesExclusion(new, id)
                THEN [err |-> "conflict", tbl |-> tbl]
            ELSE [err |-> "ok", tbl |-> new]

\* a cancellation whose UPDATE has no "AND status NOT IN (...)" guard
DeleteUnguarded(tbl, id, t) ==
    IF id \in DOMAIN tbl
        THEN [err |-> "ok",
              tbl |-> [tbl EXCEPT ![id].status = "cancelled", ![id].cancelledAt = t]]
    ELSE [err |-> "notfound", tbl |-> tbl]

\* a cancellation that is refused from the reservation's start on
DeleteBeforeStart(tbl, id, t) ==
    IF id \in DOMAIN tbl /\ tbl[id].status \notin {"cancelled", "completed", "no_show"}
       /\ t < tbl[id].start
        THEN [err |-> "ok",
              tbl |-> [tbl EXCEPT ![id].status = "cancelled", ![id].cancelledAt = t]]
    ELSE IF id \notin DOMAIN tbl
        THEN [err |-> "notfound", tbl |-> tbl]
    ELSE [err |-> "ok", tbl |-> tbl]

\* Repository.DeleteBooking: soft delete of a row that is not yet terminal
RepoDeleteBooking(tbl, id, t) ==
    IF id \in DOMAIN tbl /\ tbl[id].status \notin {"cancelled", "completed", "no_show"}
        THEN [err |-> "ok",
              tbl |-> [tbl EXCEPT ![id].status = "cancelled", ![id].cancelledAt = t]]
    ELSE IF id \notin DOMAIN tbl
        THEN [err |-> "notfound", tbl |-> tbl]
    ELSE [err |-> "ok", tbl |-> tbl]

\* an availability query that never appends "AND id != $4"
AvailableNoExclude(tbl, desk, start, end, excludeId) ==
    ~ \E i \in DOMAIN tbl :
          /\ tbl[i].desk = desk
          /\ tbl[i].status \notin {"cancelled", "no_show"}
          /\ RangesOverlap(tbl[i].start, tbl[i].end, start, end)

\* Repository.IsDeskAvailable
IsDeskAvailable(tbl, desk, start, end, excludeId) ==
    ~ \E i \in DOMAIN tbl :
          /\ tbl[i].desk = desk
          /\ tbl[i].status \notin {"cancelled", "no_show"}
          /\ RangesOverlap(tbl[i].start, tbl[i].end, start, end)
          /\ (excludeId # Nil => i # excludeId)

\* SUM over rows of LEAST(end_time, endOfDay) - GREATEST(start_time, startOfDay)
RECURSIVE SumClipped(_, _, _, _)
SumClipped(tbl, rows, startOfDay, endOfDay) ==
    IF rows = {} THEN 0
    ELSE LET i == CHOOSE r \in rows : TRUE
         IN  Min(tbl[i].end, endOfDay) - Max(tbl[i].start, startOfDay)
             + SumClipped(tbl, rows \ {i}, startOfDay, endOfDay)

\* Repository.GetUserDailyHours, in seconds instead of fractional hours
GetUserDailyHours(tbl, user, date) ==
    LET startOfDay == (date \div DayS) * DayS
        endOfDay == startOfDay + DayS
        rows == {i \in DOMAIN tbl :
                    /\ tbl[i].user = user
                    /\ tbl[i].status \in {"confirmed", "completed"}
                    /\ tbl[i].start < endOfDay
                    /\ tbl[i].end > startOfDay}
    IN  SumClipped(tbl, rows, startOfDay, endOfDay)

\* ------------------------------------------------------------ policy

\* startOfWeek: offset := (int(t.Weekday()) + 6) % 7 with Sunday = 0; day 0 is a Monday
startOfWeek(t) ==
    LET day == t \div DayS
        weekday == (day + 1) % 7
        offset == (weekday + 6) % 7
    IN  (day - offset) * DayS

\* a week that ends on the first instant of the next one
EndOfWeekNextMonday(t) == startOfWeek(t) + 7 * DayS

\* endOfWeek: startOfWeek(t).Add(7*24*time.Hour - time.Second)
endOfWeek(t) == startOfWeek(t) + 7 * DayS - 1

\* getCurrentBookableRange: (now, endOfWeek(startOfWeek(now) + 7 days))
getCurrentBookableRange(t) == <<t, endOfWeek(startOfWeek(t) + 7 * DayS)>>

\* validateBookingWindow
validateBookingWindow(startTime, t) ==
    IF startTime < t THEN "past"
    ELSE IF startTime > getCurrentBookableRange(t)[2] THEN "window"
    ELSE "ok"

\* a validation that refuses a request that reaches the daily limit exactly
ValidateBelowLimit(tbl, user, start, end, t) ==
    IF validateBookingWindow(start, t) # "ok" THEN validateBookingWindow(start, t)
    ELSE IF end - start < MinDuration \/ end - start > MaxDuration THEN "duration"
    ELSE IF GetUserDailyHours(tbl, user, start) + (end - start) >= DailyLimit THEN "daily"
    ELSE "ok"

\* a validation without step 2, the duration check
ValidateNoDuration(tbl, user, start, end, t) ==
    IF validateBookingWindow(start, t) # "ok" THEN validateBookingWindow(start, t)
    ELSE IF GetUserDailyHours(tbl, user, start) + (end - start) > DailyLimit THEN "daily"
    ELSE "ok"

\* steps 1-3 of BookingService.CreateBooking: window, duration, daily limit
ValidateCreate(tbl, user, start, end, t) ==
    IF validateBookingWindow(start, t) # "ok" THEN validateBookingWindow(start, t)
    ELSE IF end - start < MinDuration \/ end - start > MaxDuration THEN "duration"
    ELSE IF GetUserDailyHours(tbl, user, start) + (end - start) > DailyLimit THEN "daily"
    ELSE "ok"

ValidationErrors == {"past", "window", "duration", "daily"}

\* ------------------------------------------------------------ collaborators

\* a lookup that ignores the age of the record
IdemGetAnyAge(cache, key, t) ==
    IF key \in DOMAIN cache THEN cache[key].id ELSE 0

\* idempotency lookup: a stored, unexpired entry for the key
IdemGet(cache, key, t) ==
    IF key \in DOMAIN cache /\ t < cache[key].created + IdemTTL
        THEN cache[key].id
    ELSE 0

\* idempotency store: first writer wins
IdemSet(cache, key, id, row, t) ==
    IF key \in DOMAIN cache THEN cache
    ELSE [k \in DOMAIN cache \cup {key} |->
             IF k = key
                 THEN [id |-> id, desk |-> row.desk, user |-> row.user,
                       start |-> row.start, end |-> row.end, created |-> t]
             ELSE cache[k]]

\* audit.Log: one more entry for (entity, action)
AuditLog(log, id, action) ==
    LET e == <<id, action>>
    IN  [x \in DOMAIN log \cup {e} |->
            IF x = e THEN (IF e \in DOMAIN log THEN 2 ELSE 1) ELSE log[x]]

\* one more notification for the holder of booking id
Notify(n, id) ==
    [x \in DOMAIN n \cup {id} |->
        IF x = id THEN (IF id \in DOMAIN n THEN 2 ELSE 1) ELSE n[x]]

\* ------------------------------------------------------------ suggestions

NoSuggestions == [desks |-> <<>>, times |-> <<>>]

\* the n smallest elements of a set of desk ids, ascending
RECURSIVE FirstDesks(_, _)
FirstDesks(S, n) ==
    IF S = {} \/ n = 0 THEN <<>>
    ELSE LET d == CHOOSE x \in S : \A y \in S : x <= y
         IN  <<d>> \o FirstDesks(S \ {d}, n - 1)

\* FindAvailableDesks(start, end, limit): desks in service that are free for exactly
\* this interval, by ascending id
FindAvailableDesks(tbl, ds, start, end, limit) ==
    FirstDesks({d \in DOMAIN ds :
                   /\ ds[d] # "maintenance"
                   /\ IsDeskAvailable(tbl, d, start, end, Nil)}, limit)

\* the distance of a slot from the requested start
Distance(slot, start) == IF slot[1] >= start THEN slot[1] - start ELSE start - slot[1]

\* the n slots nearest to the requested start, the earlier one first on a tie
RECURSIVE NearestSlots(_, _, _)
NearestSlots(S, start, n) ==
    IF S = {} \/ n = 0 THEN <<>>
    ELSE LET sl == CHOOSE x \in S : \A y \in S :
                       \/ Distance(x, start) < Distance(y, start)
                       \/ Distance(x, start) = Distance(y, start) /\ x[1] <= y[1]
         IN  <<sl>> \o NearestSlots(S \ {sl}, start, n - 1)

\* FindAvailableTimes(desk, day, limit): slots of the requested length on the hour grid
\* of the requested day that are free on the desk
FindAvailableTimes(tbl, desk, start, end, limit) ==
    LET startOfDay == (start \div DayS) * DayS
        slots == {<<startOfDay + h * HourS, startOfDay + h * HourS + (end - start)>> :
                     h \in 0 .. 23}
    IN  NearestSlots({sl \in slots :
                         /\ sl[2] <= startOfDay + DayS
                         /\ sl # <<start, end>>
                         /\ IsDeskAvailable(tbl, desk, sl[1], sl[2], Nil)},
                     start, limit)

\* a generator that asks for one desk and one slot more than the limits
generateSuggestionsOneMore(tbl, ds, desk, start, end) ==
    [desks |-> FindAvailableDesks(tbl, ds, start, end, MaxAltDesks + 1),
     times |-> FindAvailableTimes(tbl, desk, start, end, MaxAltTimes + 1)]

\* generateSuggestions: alternative desks for the same time, alternative times for the
\* same desk
generateSuggestions(tbl, ds, desk, start, end) ==
    [desks |-> FindAvailableDesks(tbl, ds, start, end, MaxAltDesks),
     times |-> FindAvailableTimes(tbl, desk, start, end, MaxAltTimes)]

\* ------------------------------------------------------------ request path

\* A worker is either between requests (pc = "done", holding the response of its last
\* request: the result, for a create its key and booking id, and whether the request
\* wrote to the bookings table, for a conflict its suggestions) or inside a
\* multi-statement request.
IdleProc ==
    [op |-> "idle", pc |-> "done", desk |-> 0, user |-> "", start |-> 0, end |-> 0,
     key |-> NoKey, id |-> 0, res |-> "none", wrote |-> FALSE, replay |-> FALSE,
     sugg |-> NoSuggestions]

\* a request goes to the first worker that is between requests
Ready(p) == proc[p].pc = "done" /\ \A q \in DOMAIN proc : q < p => proc[q].pc # "done"

\* the response of a finished request
Response(op, key, id, res, wrote, replay) ==
    [IdleProc EXCEPT !.op = op, !.key = key, !.id = id, !.res = res,
                     !.wrote = wrote, !.replay = replay]

\* &ConflictError{Suggestions: generateSuggestions(req)}
ConflictError(op, key, replay, sugg) ==
    [IdleProc EXCEPT !.op = op, !.key = key, !.res = "conflict", !.replay = replay,
                     !.sugg = sugg]

Finish(p, res) ==
    proc' = [proc EXCEPT ![p] =
                Response(proc[p].op, proc[p].key, proc[p].id, res,
                         proc[p].wrote, proc[p].replay)]

\* the cached response for key is the booking of this very request
SameRequest(cache, key, desk, user, start, end) ==
    /\ key \in DOMAIN cache
    /\ cache[key].desk = desk /\ cache[key].user = user
    /\ cache[key].start = start /\ cache[key].end = end

\* BookingService.CreateBooking, steps 1-3: validation at time.Now()
CreateBegin(p, desk, user, start, end, key) ==
    /\ Ready(p)
    /\ started < MaxRequests
    /\ started' = started + 1
    /\ LET v == ValidateCreate(bookings, user, start, end, now)
           replay == key # NoKey /\ IdemGet(idem, key, now) # 0
                     /\ SameRequest(idem, key, desk, user, start, end)
           r == [op |-> "create", pc |-> IF key # NoKey THEN "idem" ELSE "check",
                 desk |-> desk, user |-> user, start |-> start, end |-> end,
                 key |-> key, id |-> 0, res |-> "none", wrote |-> FALSE,
                 replay |-> replay, sugg |-> NoSuggestions]
       IN  proc' = [proc EXCEPT ![p] = IF v # "ok" THEN Response("create", key, 0, v, FALSE, replay)
                              ELSE r]
    /\ UNCHANGED <<bookings, deskStatus, idem, audit, notified, now, sweep, authVars>>

\* step 4: the idempotency key, looked up after validation
CreateIdem(p) ==
    /\ proc[p].op = "create" /\ proc[p].pc = "idem"
    /\ LET hit == IdemGet(idem, proc[p].key, now)
       IN  proc' = [proc EXCEPT ![p] =
                       IF hit # 0
                           THEN Response("create", proc[p].key, hit, "ok", FALSE,
                                         proc[p].replay)
                       ELSE [@ EXCEPT !.pc = "check"]]
    /\ UNCHANGED <<bookings, deskStatus, idem, audit, notified, now, sweep, started, authVars>>

\* step 5: app-level availability check (fast fail)
CreateCheck(p) ==
    /\ proc[p].op = "create" /\ proc[p].pc = "check"
    /\ IF IsDeskAvailable(bookings, proc[p].desk, proc[p].start, proc[p].end, Nil)
           THEN proc' = [proc EXCEPT ![p].pc = "insert"]
       ELSE proc' = [proc EXCEPT ![p] =
                       ConflictError("create", proc[p].key, proc[p].replay,
                                     generateSuggestions(bookings, deskStatus, proc[p].desk,
                                                         proc[p].start, proc[p].end))]
    /\ UNCHANGED <<bookings, deskStatus, idem, audit, notified, now, sweep, started, authVars>>

\* an insert step that sends the request back to the availability check when the
\* constraint refuses the row
CreateInsertRetry(p) ==
    /\ proc[p].op = "create" /\ proc[p].pc = "insert"
    /\ LET r == RepoCreateBooking(bookings, proc[p].desk, proc[p].user,
                                  proc[p].start, proc[p].end)
       IN  /\ bookings' = r.tbl
           /\ proc' = [proc EXCEPT ![p] =
                          IF r.err = "ok"
                              THEN [@ EXCEPT !.pc = IF proc[p].key # NoKey THEN "store"
                                                    ELSE "audit",
                                             !.id = r.id, !.wrote = TRUE]
                          ELSE [@ EXCEPT !.pc = "check"]]
    /\ UNCHANGED <<deskStatus, idem, audit, notified, now, sweep, started, authVars>>

\* step 6: the insert; the exclusion constraint catches races
CreateInsert(p) ==
    /\ proc[p].op = "create" /\ proc[p].pc = "insert"
    /\ LET r == RepoCreateBooking(bookings, proc[p].desk, proc[p].user,
                                  proc[p].start, proc[p].end)
       IN  /\ bookings' = r.tbl
           /\ proc' = [proc EXCEPT ![p] =
                          IF r.err = "ok"
                              THEN [@ EXCEPT !.pc = IF proc[p].key # NoKey THEN "store"
                                                    ELSE "audit",
                                             !.id = r.id, !.wrote = TRUE]
                          ELSE IF r.err = "conflict"
                              THEN ConflictError("create", proc[p].key, proc[p].replay,
                                       generateSuggestions(r.tbl, deskStatus, proc[p].desk,
                                                           proc[p].start, proc[p].end))
                          ELSE Response("create", proc[p].key, 0, r.err,
                                        r.tbl # bookings, proc[p].replay)]
    /\ UNCHANGED <<deskStatus, idem, audit, notified, now, sweep, started, authVars>>

\* step 7: store the response under the idempotency key
CreateStore(p) ==
    /\ proc[p].op = "create" /\ proc[p].pc = "store"
    /\ idem' = IdemSet(idem, proc[p].key, proc[p].id, bookings[proc[p].id], now)
    /\ proc' = [proc EXCEPT ![p].pc = "audit"]
    /\ UNCHANGED <<bookings, deskStatus, audit, notified, now, sweep, started, authVars>>

\* step 8: the audit entry, then the booking is returned
CreateAudit(p) ==
    /\ proc[p].op = "create" /\ proc[p].pc = "audit"
    /\ audit' = AuditLog(audit, proc[p].id, "created")
    /\ Finish(p, "ok")
    /\ UNCHANGED <<bookings, deskStatus, idem, notified, now, sweep, started, authVars>>

\* Modify: validation and fast check against the new interval, own row excluded
ModifyBegin(p, id, start, end) ==
    /\ Ready(p)
    /\ started < MaxRequests
    /\ started' = started + 1
    /\ LET r == [IdleProc EXCEPT !.op = "modify", !.pc = "update", !.id = id,
                                 !.start = start, !.end = end]
           v == ValidateCreate(bookings, bookings[id].user, start, end, now)
       IN  proc' = [proc EXCEPT ![p] =
                       IF id \notin DOMAIN bookings
                           THEN Response("modify", NoKey, 0, "notfound", FALSE, FALSE)
                       ELSE IF v # "ok"
                           THEN Response("modify", NoKey, 0, v, FALSE, FALSE)
                       ELSE IF ~IsDeskAvailable(bookings, bookings[id].desk, start, end, id)
                           THEN ConflictError("modify", NoKey, FALSE,
                                    generateSuggestions(bookings, deskStatus,
                                                        bookings[id].desk, start, end))
                       ELSE r]
    /\ UNCHANGED <<bookings, deskStatus, idem, audit, notified, now, sweep, authVars>>

\* Modify with a new desk: validation and fast check against the new desk and interval,
\* own row excluded; the requested desk is kept with the request
ModifyDeskBegin(p, id, desk, start, end) ==
    /\ Ready(p)
    /\ started < MaxRequests
    /\ started' = started + 1
    /\ LET r == [IdleProc EXCEPT !.op = "modify", !.pc = "update", !.id = id,
                                 !.desk = desk, !.start = start, !.end = end]
           v == ValidateCreate(bookings, bookings[id].user, start, end, now)
       IN  proc' = [proc EXCEPT ![p] =
                       IF id \notin DOMAIN bookings
                           THEN Response("modify", NoKey, 0, "notfound", FALSE, FALSE)
                       ELSE IF v # "ok"
                           THEN Response("modify", NoKey, 0, v, FALSE, FALSE)
                       ELSE IF ~IsDeskAvailable(bookings, desk, start, end, id)
                           THEN ConflictError("modify", NoKey, FALSE,
                                    generateSuggestions(bookings, deskStatus, desk,
                                                        start, end))
                       ELSE r]
    /\ UNCHANGED <<bookings, deskStatus, idem, audit, notified, now, sweep, authVars>>

\* Modify: the update in place through Repository.UpdateBooking, whose input has start,
\* end, status and the three timestamps but no desk; then the audit entry
ModifyUpdate(p) ==
    /\ proc[p].op = "modify" /\ proc[p].pc = "update"
    /\ LET in == [NoUpdate EXCEPT !.start = proc[p].start, !.end = proc[p].end]
           r == RepoUpdateBooking(bookings, proc[p].id, in)
       IN  /\ bookings' = r.tbl
           /\ audit' = IF r.err = "ok" THEN AuditLog(audit, proc[p].id, "updated") ELSE audit
           /\ proc' = [proc EXCEPT ![p] =
                          IF r.err = "conflict"
                              THEN ConflictError("modify", NoKey, FALSE,
                                       generateSuggestions(r.tbl, deskStatus,
                                           r.tbl[proc[p].id].desk, proc[p].start,
                                           proc[p].end))
                          ELSE Response("modify", NoKey, 0, r.err,
                                        r.tbl # bookings, FALSE)]
    /\ UNCHANGED <<deskStatus, idem, notified, now, sweep, started, authVars>>

\* Cancel: Repository.DeleteBooking, then the audit entry when a row changed
Cancel(p, id) ==
    /\ Ready(p)
    /\ started < MaxRequests
    /\ started' = started + 1
    /\ LET r == RepoDeleteBooking(bookings, id, now)
       IN  /\ bookings' = r.tbl
           /\ audit' = IF r.tbl # bookings THEN AuditLog(audit, id, "cancelled") ELSE audit
           /\ proc' = [proc EXCEPT ![p] = Response("cancel", NoKey, 0, r.err, r.tbl # bookings, FALSE)]
    /\ UNCHANGED <<deskStatus, idem, notified, now, sweep, authVars>>

\* a check-in window that is open at its far end
CheckInWindowOpenEnd(start, t) ==
    IF t < start - GracePeriod THEN "too_early"
    ELSE IF t >= start + GracePeriod THEN "too_late"
    ELSE "ok"

\* BookingHandler.CheckIn, "Verify check-in window": now.Before(start - 15min) is too
\* early, now.After(start + 15min) is too late
CheckInWindow(start, t) ==
    IF t < start - GracePeriod THEN "too_early"
    ELSE IF t > start + GracePeriod THEN "too_late"
    ELSE "ok"

\* BookingHandler.CheckIn: load the booking and verify the check-in window
CheckInBegin(p, id) ==
    /\ Ready(p)
    /\ started < MaxRequests
    /\ started' = started + 1
    /\ proc' = [proc EXCEPT ![p] =
                   IF id \notin DOMAIN bookings
                       THEN Response("checkin", NoKey, 0, "notfound", FALSE, FALSE)
                   ELSE IF CheckInWindow(bookings[id].start, now) # "ok"
                       THEN Response("checkin", NoKey, 0,
                                     CheckInWindow(bookings[id].start, now), FALSE, FALSE)
                   ELSE [IdleProc EXCEPT !.op = "checkin", !.pc = "checkin", !.id = id]]
    /\ UNCHANGED <<bookings, deskStatus, idem, audit, notified, now, sweep, authVars>>

\* CheckInBooking: checked_in_at = now if it is unset, status untouched
CheckInCommit(p) ==
    /\ proc[p].op = "checkin" /\ proc[p].pc = "checkin"
    /\ LET id == proc[p].id
           r == IF bookings[id].checkedInAt = Nil
                    THEN RepoUpdateBooking(bookings, id, [NoUpdate EXCEPT !.checkedInAt = now])
                ELSE [err |-> "ok", tbl |-> bookings]
       IN  /\ bookings' = r.tbl
           /\ audit' = IF r.tbl # bookings THEN AuditLog(audit, id, "checked_in") ELSE audit
           /\ proc' = [proc EXCEPT ![p] =
                          Response("checkin", NoKey, 0, r.err,
                                   r.tbl # bookings, FALSE)]
    /\ UNCHANGED <<deskStatus, idem, notified, now, sweep, started, authVars>>

\* BookingService.EndBookingEarly: UpdateBooking(actual_end_time = now, status = completed)
EndBookingEarly(p, id) ==
    /\ Ready(p)
    /\ started < MaxRequests
    /\ started' = started + 1
    /\ LET r == RepoUpdateBooking(bookings, id,
                    [NoUpdate EXCEPT !.actualEnd = now, !.status = "completed"])
       IN  /\ bookings' = r.tbl
           /\ proc' = [proc EXCEPT ![p] = Response("endearly", NoKey, 0, r.err, r.tbl # bookings, FALSE)]
    /\ UNCHANGED <<deskStatus, idem, audit, notified, now, sweep, authVars>>

\* ------------------------------------------------------------ no-show sweeper

\* ProcessNoShows: the selection query at gracePeriodCutoff = now - 15 minutes
SweepSelect(s) ==
    /\ sweep[s].pc = "idle"
    /\ LET sel == {i \in DOMAIN bookings :
                      /\ bookings[i].status = "confirmed"
                      /\ bookings[i].checkedInAt = Nil
                      /\ bookings[i].start <= now - GracePeriod}
       IN  /\ sel # {}
           /\ sweep' = [sweep EXCEPT ![s] = [pc |-> "rows", sel |-> sel, failed |-> {}]]
    /\ UNCHANGED <<bookings, deskStatus, idem, audit, notified, now, proc, started, authVars>>

\* a per-row transaction that trusts the selection and does not re-read the status
SweepRowNoRecheck(s, id) ==
    /\ sweep[s].pc = "rows"
    /\ id \in sweep[s].sel
    /\ bookings' = [bookings EXCEPT ![id].status = "no_show"]
    /\ audit' = AuditLog(audit, id, "no_show")
    /\ notified' = Notify(notified, id)
    /\ sweep' = [sweep EXCEPT ![s] =
                    IF sweep[s].sel = {id} THEN [@ EXCEPT !.pc = "idle", !.sel = {}]
                    ELSE [@ EXCEPT !.sel = sweep[s].sel \ {id}]]
    /\ UNCHANGED <<deskStatus, idem, now, proc, started, authVars>>

\* ProcessNoShows: one row's transaction, SELECT status ... FOR UPDATE then the update
SweepRow(s, id) ==
    /\ sweep[s].pc = "rows"
    /\ id \in sweep[s].sel
    /\ IF bookings[id].status # "confirmed"
           THEN UNCHANGED <<bookings, audit, notified>>
       ELSE /\ bookings' = [bookings EXCEPT ![id].status = "no_show"]
            /\ audit' = AuditLog(audit, id, "no_show")
            /\ notified' = Notify(notified, id)
    /\ sweep' = [sweep EXCEPT ![s] =
                    IF sweep[s].sel = {id} THEN [@ EXCEPT !.pc = "idle", !.sel = {}]
                    ELSE [@ EXCEPT !.sel = sweep[s].sel \ {id}]]
    /\ UNCHANGED <<deskStatus, idem, now, proc, started, authVars>>

\* a failing row transaction that makes the run return at once
SweepRowFailAbort(s, id) ==
    /\ sweep[s].pc = "rows"
    /\ id \in sweep[s].sel
    /\ sweep' = [sweep EXCEPT ![s] = [@ EXCEPT !.pc = "idle", !.sel = {},
                                                !.failed = @ \cup {id}]]
    /\ UNCHANGED <<bookings, deskStatus, idem, audit, notified, now, proc, started, authVars>>

\* ProcessNoShows: one row's transaction fails and is rolled back; err is assigned
\* inside the loop and the loop goes on with the next id
SweepRowFail(s, id) ==
    /\ sweep[s].pc = "rows"
    /\ id \in sweep[s].sel
    /\ sweep' = [sweep EXCEPT ![s] =
                    IF sweep[s].sel = {id}
                        THEN [@ EXCEPT !.pc = "idle", !.sel = {}, !.failed = @ \cup {id}]
                    ELSE [@ EXCEPT !.sel = sweep[s].sel \ {id}, !.failed = @ \cup {id}]]
    /\ UNCHANGED <<bookings, deskStatus, idem, audit, notified, now, proc, started, authVars>>

\* the daily cleanup job: DELETE ... WHERE created_at < NOW() - INTERVAL '24 hours'
IdemCleanup ==
    /\ idem' = [k \in {x \in DOMAIN idem : ~(idem[x].created < now - IdemTTL)} |-> idem[k]]
    /\ idem' # idem
    /\ UNCHANGED <<bookings, deskStatus, audit, notified, now, proc, sweep, started, authVars>>

\* ------------------------------------------------------------ desks and clock

\* a cascade that also cancels the confirmed reservations that have already ended
SetDeskMaintenanceAll(d) ==
    /\ deskStatus[d] = "available"
    /\ started < MaxRequests
    /\ started' = started + 1
    /\ deskStatus' = [deskStatus EXCEPT ![d] = "maintenance"]
    /\ LET hit == {i \in DOMAIN bookings :
                      /\ bookings[i].desk = d
                      /\ bookings[i].status = "confirmed"}
       IN  /\ bookings' = [i \in DOMAIN bookings |->
                              IF i \in hit THEN RepoDeleteBooking(bookings, i, now).tbl[i]
                              ELSE bookings[i]]
           /\ audit' = [x \in DOMAIN audit \cup {<<i, "cancelled">> : i \in hit} |->
                           IF x[2] = "cancelled" /\ x[1] \in hit
                               THEN (IF x \in DOMAIN audit THEN 2 ELSE 1)
                           ELSE audit[x]]
    /\ UNCHANGED <<idem, notified, now, proc, sweep, authVars>>

\* SetDeskMaintenance: the desk leaves service and its confirmed, un-ended bookings are cancelled
SetDeskMaintenance(d) ==
    /\ deskStatus[d] = "available"
    /\ started < MaxRequests
    /\ started' = started + 1
    /\ deskStatus' = [deskStatus EXCEPT ![d] = "maintenance"]
    /\ LET hit == {i \in DOMAIN bookings :
                      /\ bookings[i].desk = d
                      /\ bookings[i].status = "confirmed"
                      /\ bookings[i].end > now}
       IN  /\ bookings' = [i \in DOMAIN bookings |->
                              IF i \in hit THEN RepoDeleteBooking(bookings, i, now).tbl[i]
                              ELSE bookings[i]]
           /\ audit' = [x \in DOMAIN audit \cup {<<i, "cancelled">> : i \in hit} |->
                           IF x[2] = "cancelled" /\ x[1] \in hit
                               THEN (IF x \in DOMAIN audit THEN 2 ELSE 1)
                           ELSE audit[x]]
    /\ UNCHANGED <<idem, notified, now, proc, sweep, authVars>>

\* time passes
Tick(t) ==
    /\ t > now
    /\ now' = t
    /\ UNCHANGED <<bookings, deskStatus, idem, audit, notified, proc, sweep, started, authVars>>

\* ------------------------------------------------------------ auth service

\* refresh tokens live seven days
RefreshTokenExpiry == 7 * DayS

AuthUsers == {"u1", "u2"}
AuthProcs == {1, 2}
RotateUsers == {"u1"}
DisabledProcs == {1, 2}
LogoutNows == {1}
\* an email no user has
NoUser == "nobody"
\* RoleMember, RoleAdmin
UserRoles == {"member", "admin"}
\* after second 0: one more second tokens are issued in, and a moment at which the
\* tokens of both seconds have expired
AuthNows == {1, RefreshTokenExpiry + 5}

\* a refresh token is the HS256 signature over its claims: user (and the user's role),
\* token type, and the issue time cut to the second (exp and nbf follow from iat); the
\* same user in the same second gets the same string
generateToken(user, role, t) == [user |-> user, role |-> role, iat |-> t]

NoToken == [user |-> NoUser, role |-> "member", iat |-> 0]
\* a string no key of this service signed
Garbage == [user |-> NoUser, role |-> "member", iat |-> 1]

\* the signature verifies and the token has not expired
ValidateRefreshToken(tok, t) ==
    /\ tok.user \in AuthUsers
    /\ t < tok.iat + RefreshTokenExpiry

LiveIds(tbl) == {i \in DOMAIN tbl : tbl[i].live}

SessionsOf(tbl, tok) == {i \in LiveIds(tbl) : tbl[i].token = tok}

\* SELECT ... WHERE refresh_token = $1, then the expiry check; Nil for both errors
GetSessionByRefreshToken(tbl, tok, t) ==
    IF SessionsOf(tbl, tok) = {}
    THEN Nil
    ELSE LET i == CHOOSE j \in SessionsOf(tbl, tok) : TRUE
         IN  IF t > tbl[i].expiresAt THEN Nil ELSE i

\* refresh_token is UNIQUE: the insert of a stored token fails
CanCreateSession(tbl, tok) == SessionsOf(tbl, tok) = {}

\* parent is history, not a column: the session whose rotation made the row, or Nil
RepoCreateSession(tbl, user, tok, t, parent) ==
    Append(tbl, [user |-> user, token |-> tok,
                 expiresAt |-> t + RefreshTokenExpiry, live |-> TRUE, parent |-> parent])

RepoDeleteSession(tbl, id) == [tbl EXCEPT ![id].live = FALSE]

DeleteSessionByRefreshToken(tbl, tok) ==
    [i \in DOMAIN tbl |-> IF tbl[i].token = tok THEN [tbl[i] EXCEPT !.live = FALSE]
                                                ELSE tbl[i]]

DeleteAllUserSessions(tbl, user) ==
    [i \in DOMAIN tbl |-> IF tbl[i].user = user THEN [tbl[i] EXCEPT !.live = FALSE]
                                                ELSE tbl[i]]

AuthIdle ==
    [op |-> "none", pc |-> "idle", user |-> NoUser, role |-> "member", token |-> NoToken,
     sid |-> Nil, res |-> "none", out |-> NoToken]

\* a call that has returned: its result, and the refresh token it handed out, if any
AuthResponse(op, res, out) ==
    [AuthIdle EXCEPT !.op = op, !.res = res, !.out = out]

InitAuthState ==
    /\ users = [u \in AuthUsers |-> "active"]
    /\ roles = [u \in AuthUsers |-> "member"]
    /\ sessions = <<>>
    /\ authProc = [p \in AuthProcs |-> AuthIdle]
    /\ issued = {}
    /\ rotated = {}
    /\ loggedOut = {}

\* calls past their checks that will still insert a session
Creating == {p \in AuthProcs : authProc[p].pc # "idle"}

AuthRoom == Len(sessions) + Cardinality(Creating) < MaxSessions

\* Login up to the token pair: the user by email, the status, the password
LoginBegin(p, user, passwordOk) ==
    /\ authProc[p].pc = "idle"
    /\ AuthRoom
    /\ authProc' = [authProc EXCEPT ![p] =
          IF user \notin AuthUsers
          THEN AuthResponse("login", "invalid_credentials", NoToken)
          ELSE IF users[user] = "disabled"
          THEN AuthResponse("login", "user_disabled", NoToken)
          ELSE IF ~passwordOk
          THEN AuthResponse("login", "invalid_credentials", NoToken)
          ELSE [AuthIdle EXCEPT !.op = "login", !.pc = "create", !.user = user,
                               !.role = roles[user]]]
    /\ UNCHANGED <<users, roles, sessions, issued, rotated, loggedOut, now, bookingVars>>

\* Login: GenerateTokenPair and CreateSession
LoginCreate(p) ==
    /\ authProc[p].op = "login"
    /\ authProc[p].pc = "create"
    /\ LET user == authProc[p].user
           tok == generateToken(user, authProc[p].role, now)
       IN  IF CanCreateSession(sessions, tok)
           THEN /\ sessions' = RepoCreateSession(sessions, user, tok, now, Nil)
                /\ issued' = issued \cup {tok}
                /\ authProc' = [authProc EXCEPT ![p] =
                                   AuthResponse("login", "ok", tok)]
           ELSE /\ authProc' = [authProc EXCEPT ![p] =
                                   AuthResponse("login", "error", NoToken)]
                /\ UNCHANGED <<sessions, issued>>
    /\ UNCHANGED <<users, roles, rotated, loggedOut, now, bookingVars>>

\* RefreshToken: ValidateRefreshToken and GetSessionByRefreshToken
RefreshBegin(p, tok) ==
    /\ authProc[p].pc = "idle"
    /\ AuthRoom
    /\ LET sid == GetSessionByRefreshToken(sessions, tok, now)
       IN  authProc' = [authProc EXCEPT ![p] =
              IF ~ValidateRefreshToken(tok, now) \/ sid = Nil
              THEN AuthResponse("refresh", "invalid_refresh_token", NoToken)
              ELSE [AuthIdle EXCEPT !.op = "refresh", !.pc = "user", !.token = tok,
                                    !.user = sessions[sid].user, !.sid = sid]]
    /\ UNCHANGED <<users, roles, sessions, issued, rotated, loggedOut, now, bookingVars>>

\* mutant: RefreshToken without the status check
RefreshUserUnchecked(p) ==
    /\ authProc[p].op = "refresh"
    /\ authProc[p].pc = "user"
    /\ authProc' = [authProc EXCEPT ![p].pc = "delete"]
    /\ UNCHANGED <<users, roles, sessions, issued, rotated, loggedOut, now, bookingVars>>

\* RefreshToken: GetUserByID and the status check
RefreshUser(p) ==
    /\ authProc[p].op = "refresh"
    /\ authProc[p].pc = "user"
    /\ authProc' = [authProc EXCEPT ![p] =
          IF users[authProc[p].user] = "disabled"
          THEN AuthResponse("refresh", "user_disabled", NoToken)
          ELSE [@ EXCEPT !.pc = "delete", !.role = roles[authProc[p].user]]]
    /\ UNCHANGED <<users, roles, sessions, issued, rotated, loggedOut, now, bookingVars>>

\* mutant: a rotation that goes on when DeleteSession found no row
RefreshDeleteAnyway(p) ==
    /\ authProc[p].op = "refresh"
    /\ authProc[p].pc = "delete"
    /\ sessions' = IF authProc[p].sid \in LiveIds(sessions)
                       THEN RepoDeleteSession(sessions, authProc[p].sid)
                   ELSE sessions
    /\ authProc' = [authProc EXCEPT ![p].pc = "create"]
    /\ UNCHANGED <<users, roles, issued, rotated, loggedOut, now, bookingVars>>

\* RefreshToken: DeleteSession by the id read before; no row deleted is an error
RefreshDelete(p) ==
    /\ authProc[p].op = "refresh"
    /\ authProc[p].pc = "delete"
    /\ IF authProc[p].sid \in LiveIds(sessions)
       THEN /\ sessions' = RepoDeleteSession(sessions, authProc[p].sid)
            /\ authProc' = [authProc EXCEPT ![p].pc = "create"]
       ELSE /\ authProc' = [authProc EXCEPT ![p] =
                  AuthResponse("refresh", "session_not_found", NoToken)]
            /\ UNCHANGED sessions
    /\ UNCHANGED <<users, roles, issued, rotated, loggedOut, now, bookingVars>>

\* RefreshToken: GenerateTokenPair from the claims and CreateSession
RefreshCreate(p) ==
    /\ authProc[p].op = "refresh"
    /\ authProc[p].pc = "create"
    /\ LET old == authProc[p].token
           tok == generateToken(old.user, old.role, now)
       IN  IF CanCreateSession(sessions, tok)
           THEN /\ sessions' = RepoCreateSession(sessions, old.user, tok, now, authProc[p].sid)
                /\ issued' = issued \cup {tok}
                /\ rotated' = rotated \cup {old}
                /\ loggedOut' = IF old \in loggedOut THEN loggedOut \cup {tok}
                                                     ELSE loggedOut
                /\ authProc' = [authProc EXCEPT ![p] =
                                   AuthResponse("refresh", "ok", tok)]
           ELSE /\ authProc' = [authProc EXCEPT ![p] =
                                   AuthResponse("refresh", "error", NoToken)]
                /\ UNCHANGED <<sessions, issued, rotated, loggedOut>>
    /\ UNCHANGED <<users, roles, now, bookingVars>>

\* Logout: one DELETE by refresh token
Logout(p, tok) ==
    /\ authProc[p].pc = "idle"
    /\ sessions' = DeleteSessionByRefreshToken(sessions, tok)
    /\ authProc' = [authProc EXCEPT ![p] =
          AuthResponse("logout",
                       IF SessionsOf(sessions, tok) = {} THEN "session_not_found" ELSE "ok",
                       NoToken)]
    /\ UNCHANGED <<users, roles, issued, rotated, loggedOut, now, bookingVars>>

\* LogoutAll: one DELETE by user id
LogoutAll(p, user) ==
    /\ authProc[p].pc = "idle"
    /\ sessions' = DeleteAllUserSessions(sessions, user)
    /\ loggedOut' = loggedOut \cup {t \in issued : t.user = user}
    /\ authProc' = [authProc EXCEPT ![p] =
                       AuthResponse("logout_all", "ok", NoToken)]
    /\ UNCHANGED <<users, roles, issued, rotated, now, bookingVars>>

\* an admin changes a user's role: UPDATE users SET role = $1 WHERE id = $2
UpdateUserRole(user, role) ==
    /\ roles[user] # role
    /\ roles' = [roles EXCEPT ![user] = role]
    /\ UNCHANGED <<users, sessions, authProc, issued, rotated, loggedOut, now, bookingVars>>

\* an admin disables an account
DisableUser(user) ==
    /\ users[user] = "active"
    /\ users' = [users EXCEPT ![user] = "disabled"]
    /\ UNCHANGED <<roles, sessions, authProc, issued, rotated, loggedOut, now, bookingVars>>

\* ------------------------------------------------------------ specification

InitOver(P, S) ==
    /\ bookings = <<>>
    /\ deskStatus = [d \in Desks |-> "available"]
    /\ idem = <<>>
    /\ audit = <<>>
    /\ notified = <<>>
    /\ now = 0
    /\ proc = [p \in P |-> IdleProc]
    /\ sweep = [s \in S |-> [pc |-> "idle", sel |-> {}, failed |-> {}]]
    /\ started = 0
    /\ InitAuthState

Init == InitOver(Procs, Sweepers)

\* the ids a client may name: every row, and one id that does not exist
Ids == 1 .. Len(bookings) + 1

\* every operation, two workers and one sweeper, requests without idempotency key
Next ==
    \/ \E p \in Procs, d \in Desks, u \in Users, iv \in Intervals :
          CreateBegin(p, d, u, iv[1], iv[2], NoKey)
    \/ \E p \in Procs : CreateCheck(p)
    \/ \E p \in Procs : CreateInsert(p)
    \/ \E p \in Procs : CreateAudit(p)
    \/ \E p \in Procs, id \in Ids, iv \in Intervals : ModifyBegin(p, id, iv[1], iv[2])
    \/ \E p \in Procs : ModifyUpdate(p)
    \/ \E p \in Procs, id \in Ids : Cancel(p, id)
    \/ \E p \in Procs, id \in Ids : CheckInBegin(p, id)
    \/ \E p \in Procs : CheckInCommit(p)
    \/ \E p \in Procs, id \in Ids : EndBookingEarly(p, id)
    \/ \E s \in Sweepers : SweepSelect(s)
    \/ \E s \in Sweepers, id \in DOMAIN bookings : SweepRow(s, id)
    \/ \E d \in Desks : SetDeskMaintenance(d)
    \/ \E t \in NowPoints : Tick(t)

Spec == Init /\ [][Next]_vars

\* ---- one worker: every operation, one request after the other, against the sweeper

InitSeq == InitOver(SeqProcs, Sweepers)

NextSeq ==
    \/ \E p \in SeqProcs, d \in Desks, u \in Users, iv \in Intervals :
          CreateBegin(p, d, u, iv[1], iv[2], NoKey)
    \/ \E p \in SeqProcs : CreateCheck(p)
    \/ \E p \in SeqProcs : CreateInsert(p)
    \/ \E p \in SeqProcs : CreateAudit(p)
    \/ \E p \in SeqProcs, id \in Ids, iv \in Intervals : ModifyBegin(p, id, iv[1], iv[2])
    \/ \E p \in SeqProcs : ModifyUpdate(p)
    \/ \E p \in SeqProcs, id \in Ids : Cancel(p, id)
    \/ \E p \in SeqProcs, id \in Ids : CheckInBegin(p, id)
    \/ \E p \in SeqProcs : CheckInCommit(p)
    \/ \E p \in SeqProcs, id \in Ids : EndBookingEarly(p, id)
    \/ \E s \in Sweepers : SweepSelect(s)
    \/ \E s \in Sweepers, id \in DOMAIN bookings : SweepRow(s, id)
    \/ \E t \in SeqNowPoints : Tick(t)

SpecSeq == InitSeq /\ [][NextSeq]_vars

\* ---- the booking window: creations around the week boundaries

InitWindow ==
    /\ bookings = <<>>
    /\ deskStatus = [d \in Desks |-> "available"]
    /\ idem = <<>>
    /\ audit = <<>>
    /\ notified = <<>>
    /\ now \in WindowNows
    /\ proc = [p \in WindowProcs |-> IdleProc]
    /\ sweep = [s \in Sweepers |-> [pc |-> "idle", sel |-> {}, failed |-> {}]]
    /\ started = 0
    /\ InitAuthState

NextWindow ==
    \/ \E p \in WindowProcs, d \in WindowDesks, u \in Users, st \in WindowStarts :
          CreateBegin(p, d, u, st, st + HourS, NoKey)
    \/ \E p \in WindowProcs : CreateCheck(p)
    \/ \E p \in WindowProcs : CreateInsert(p)
    \/ \E p \in WindowProcs : CreateAudit(p)
    \/ \E t \in WindowNows : Tick(t)

SpecWindow == InitWindow /\ [][NextWindow]_vars

\* ---- the daily limit: one holder booking, moving and cancelling across two days

InitDaily == InitOver(DailyProcs, Sweepers)

NextDaily ==
    \/ \E p \in DailyProcs, d \in DailyDesks, u \in Users, iv \in DailyIntervals :
          CreateBegin(p, d, u, iv[1], iv[2], NoKey)
    \/ \E p \in DailyProcs : CreateCheck(p)
    \/ \E p \in DailyProcs : CreateInsert(p)
    \/ \E p \in DailyProcs : CreateAudit(p)
    \/ \E p \in DailyProcs, id \in DOMAIN bookings, iv \in DailyIntervals :
          ModifyBegin(p, id, iv[1], iv[2])
    \/ \E p \in DailyProcs : ModifyUpdate(p)
    \/ \E p \in DailyProcs, id \in DOMAIN bookings : Cancel(p, id)
    \/ \E t \in DailyNows : Tick(t)

SpecDaily == InitDaily /\ [][NextDaily]_vars

\* ---- the daily-limit race: creations of one holder validated side by side

InitLimitRace == InitOver(LimitRaceProcs, Sweepers)

NextLimitRace ==
    \/ \E p \in LimitRaceProcs, d \in LimitRaceDesks, u \in Users, iv \in LimitRaceIntervals :
          CreateBegin(p, d, u, iv[1], iv[2], NoKey)
    \/ \E p \in LimitRaceProcs : CreateCheck(p)
    \/ \E p \in LimitRaceProcs : CreateInsert(p)
    \/ \E p \in LimitRaceProcs : CreateAudit(p)

SpecLimitRace == InitLimitRace /\ [][NextLimitRace]_vars

\* ---- the duration bounds: creations and modifications of start, end or both

InitDur == InitOver(DurProcs, Sweepers)

NextDur ==
    \/ \E p \in DurProcs, d \in DurDesks, u \in Users, iv \in DurIntervals :
          CreateBegin(p, d, u, iv[1], iv[2], NoKey)
    \/ \E p \in DurProcs : CreateCheck(p)
    \/ \E p \in DurProcs : CreateInsert(p)
    \/ \E p \in DurProcs : CreateAudit(p)
    \/ \E p \in DurProcs, id \in DOMAIN bookings, iv \in DurIntervals :
          ModifyBegin(p, id, iv[1], iv[2])
    \/ \E p \in DurProcs, id \in DOMAIN bookings, st \in DurPoints :
          ModifyBegin(p, id, st, bookings[id].end)
    \/ \E p \in DurProcs, id \in DOMAIN bookings, en \in DurPoints :
          ModifyBegin(p, id, bookings[id].start, en)
    \/ \E p \in DurProcs : ModifyUpdate(p)

SpecDur == InitDur /\ [][NextDur]_vars

\* ---- moving a reservation to another desk and interval

InitMove == InitOver(MoveProcs, Sweepers)

NextMove ==
    \/ \E p \in MoveProcs, d \in Desks, u \in Users, iv \in Intervals :
          CreateBegin(p, d, u, iv[1], iv[2], NoKey)
    \/ \E p \in MoveProcs : CreateCheck(p)
    \/ \E p \in MoveProcs : CreateInsert(p)
    \/ \E p \in MoveProcs : CreateAudit(p)
    \/ \E p \in MoveProcs, id \in Ids, d \in Desks, iv \in Intervals :
          ModifyDeskBegin(p, id, d, iv[1], iv[2])
    \/ \E p \in MoveProcs : ModifyUpdate(p)

SpecMove == InitMove /\ [][NextMove]_vars

\* ---- the maintenance cascade

InitMaint == InitOver(MaintProcs, Sweepers)

NextMaint ==
    \/ \E p \in MaintProcs, d \in Desks, u \in Users, iv \in Intervals :
          CreateBegin(p, d, u, iv[1], iv[2], NoKey)
    \/ \E p \in MaintProcs : CreateCheck(p)
    \/ \E p \in MaintProcs : CreateInsert(p)
    \/ \E p \in MaintProcs : CreateAudit(p)
    \/ \E p \in MaintProcs, id \in DOMAIN bookings : Cancel(p, id)
    \/ \E p \in MaintProcs, id \in DOMAIN bookings : EndBookingEarly(p, id)
    \/ \E d \in Desks : SetDeskMaintenance(d)
    \/ \E t \in MaintNows : Tick(t)

SpecMaint == InitMaint /\ [][NextMaint]_vars

\* the refresh tokens a client can hold, and one it made up
ClientTokens == issued \cup {Garbage}

\* ---- token rotation: two workers logging one user in and refreshing, the clock

InitRotate == InitOver(Procs, Sweepers)

NextRotate ==
    \/ \E p \in AuthProcs, u \in RotateUsers : LoginBegin(p, u, TRUE)
    \/ \E p \in AuthProcs : LoginCreate(p)
    \/ \E p \in AuthProcs, tok \in ClientTokens : RefreshBegin(p, tok)
    \/ \E p \in AuthProcs : RefreshUser(p)
    \/ \E p \in AuthProcs : RefreshDelete(p)
    \/ \E p \in AuthProcs : RefreshCreate(p)
    \/ \E t \in AuthNows : Tick(t)

SpecRotate == InitRotate /\ [][NextRotate]_vars

\* ---- role changes: two workers logging in and rotating, an admin changing the role

InitRole == InitOver(Procs, Sweepers)

NextRole ==
    \/ \E p \in AuthProcs, u \in RotateUsers : LoginBegin(p, u, TRUE)
    \/ \E p \in AuthProcs : LoginCreate(p)
    \/ \E p \in AuthProcs, tok \in ClientTokens : RefreshBegin(p, tok)
    \/ \E p \in AuthProcs : RefreshUser(p)
    \/ \E p \in AuthProcs : RefreshDelete(p)
    \/ \E p \in AuthProcs : RefreshCreate(p)
    \/ \E u \in RotateUsers, r \in UserRoles : UpdateUserRole(u, r)
    \/ \E t \in AuthNows : Tick(t)

SpecRole == InitRole /\ [][NextRole]_vars

\* ---- disabled accounts: two workers, any credentials, an admin disabling accounts

InitDisabled == InitOver(Procs, Sweepers)

NextDisabled ==
    \/ \E p \in DisabledProcs, u \in AuthUsers \cup {NoUser}, ok \in BOOLEAN :
          LoginBegin(p, u, ok)
    \/ \E p \in DisabledProcs : LoginCreate(p)
    \/ \E p \in DisabledProcs, tok \in ClientTokens : RefreshBegin(p, tok)
    \/ \E p \in DisabledProcs : RefreshUser(p)
    \/ \E p \in DisabledProcs : RefreshDelete(p)
    \/ \E p \in DisabledProcs : RefreshCreate(p)
    \/ \E u \in AuthUsers : DisableUser(u)
    \/ \E t \in AuthNows : Tick(t)

SpecDisabled == InitDisabled /\ [][NextDisabled]_vars

\* ---- logging out: two workers, two users, refreshes beside Logout and LogoutAll

InitLogout == InitOver(Procs, Sweepers)

NextLogout ==
    \/ \E p \in AuthProcs, u \in AuthUsers : LoginBegin(p, u, TRUE)
    \/ \E p \in AuthProcs : LoginCreate(p)
    \/ \E p \in AuthProcs, tok \in ClientTokens : RefreshBegin(p, tok)
    \/ \E p \in AuthProcs : RefreshUser(p)
    \/ \E p \in AuthProcs : RefreshDelete(p)
    \/ \E p \in AuthProcs : RefreshCreate(p)
    \/ \E p \in AuthProcs, tok \in ClientTokens : Logout(p, tok)
    \/ \E p \in AuthProcs, u \in AuthUsers : LogoutAll(p, u)
    \/ \E t \in LogoutNows : Tick(t)

SpecLogout == InitLogout /\ [][NextLogout]_vars

\* ---- suggestions: conflicts on one desk among eight

InitSugg ==
    /\ bookings = <<>>
    /\ deskStatus = [d \in SuggDesks |->
                        IF d \in SuggMaintenance THEN "maintenance" ELSE "available"]
    /\ idem = <<>>
    /\ audit = <<>>
    /\ notified = <<>>
    /\ now = 0
    /\ proc = [p \in SuggProcs |-> IdleProc]
    /\ sweep = [s \in Sweepers |-> [pc |-> "idle", sel |-> {}, failed |-> {}]]
    /\ started = 0
    /\ InitAuthState

NextSugg ==
    \/ \E p \in SuggProcs, d \in SuggRequestDesks, u \in Users, iv \in Intervals :
          CreateBegin(p, d, u, iv[1], iv[2], NoKey)
    \/ \E p \in SuggProcs : CreateCheck(p)
    \/ \E p \in SuggProcs : CreateInsert(p)
    \/ \E p \in SuggProcs : CreateAudit(p)
    \/ \E p \in SuggProcs, id \in DOMAIN bookings, iv \in Intervals :
          ModifyBegin(p, id, iv[1], iv[2])
    \/ \E p \in SuggProcs : ModifyUpdate(p)
    \/ \E p \in SuggProcs, id \in DOMAIN bookings : Cancel(p, id)
    \/ \E d \in SuggClosingDesks : SetDeskMaintenance(d)

SpecSugg == InitSugg /\ [][NextSugg]_vars

\* ---- the creation race: every worker takes one creation while the others are in flight

InitRace == InitOver(RaceProcs, Sweepers)

RaceBegin(p, d, u, iv) ==
    /\ proc[p].op = "idle"
    /\ CreateBegin(p, d, u, iv[1], iv[2], NoKey)

NextRace ==
    \/ \E p \in RaceProcs, d \in RaceDesks, u \in Users, iv \in RaceIntervals :
          RaceBegin(p, d, u, iv)
    \/ \E p \in RaceProcs : CreateCheck(p)
    \/ \E p \in RaceProcs : CreateInsert(p)
    \/ \E p \in RaceProcs : CreateAudit(p)

SpecRace == InitRace /\ [][NextRace]_vars

\* ---- the keyed creation race: two workers, one key, one payload

InitKeyRace == InitOver(KeyRaceProcs, Sweepers)

NextKeyRace ==
    \/ \E p \in KeyRaceProcs, d \in KeyRaceDesks, u \in Users, iv \in KeyRaceIntervals,
          k \in Keys : CreateBegin(p, d, u, iv[1], iv[2], k)
    \/ \E p \in KeyRaceProcs : CreateIdem(p)
    \/ \E p \in KeyRaceProcs : CreateCheck(p)
    \/ \E p \in KeyRaceProcs : CreateInsert(p)
    \/ \E p \in KeyRaceProcs : CreateStore(p)
    \/ \E p \in KeyRaceProcs : CreateAudit(p)

SpecKeyRace == InitKeyRace /\ [][NextKeyRace]_vars

\* ---- disjoint creations: two workers, two desks, intervals that intersect or touch

InitDisjoint == InitOver(Procs, Sweepers)

NextDisjoint ==
    \/ \E p \in Procs, d \in Desks, u \in Users, iv \in Intervals :
          CreateBegin(p, d, u, iv[1], iv[2], NoKey)
    \/ \E p \in Procs : CreateCheck(p)
    \/ \E p \in Procs : CreateInsert(p)
    \/ \E p \in Procs : CreateAudit(p)

SpecDisjoint == InitDisjoint /\ [][NextDisjoint]_vars

\* ---- a failing row in a sweep cycle: one worker, one interval on two desks, one sweeper

InitSweepFail == InitOver(FailProcs, Sweepers)

NextSweepFail ==
    \/ \E p \in FailProcs, d \in Desks, u \in Users, iv \in FailIntervals :
          CreateBegin(p, d, u, iv[1], iv[2], NoKey)
    \/ \E p \in FailProcs : CreateCheck(p)
    \/ \E p \in FailProcs : CreateInsert(p)
    \/ \E p \in FailProcs : CreateAudit(p)
    \/ \E p \in FailProcs, id \in DOMAIN bookings : Cancel(p, id)
    \/ \E s \in Sweepers : SweepSelect(s)
    \/ \E s \in Sweepers, id \in DOMAIN bookings : SweepRow(s, id)
    \/ \E s \in Sweepers, id \in DOMAIN bookings : SweepRowFail(s, id)
    \/ \E t \in FailNows : Tick(t)

SpecSweepFail == InitSweepFail /\ [][NextSweepFail]_vars

\* ---- the idempotency TTL: one worker, one key, the clock around 24h, the cleanup job

InitTTL == InitOver(TTLProcs, Sweepers)

NextTTL ==
    \/ \E p \in TTLProcs, d \in TTLDesks, u \in Users, iv \in TTLIntervals, k \in Keys :
          CreateBegin(p, d, u, iv[1], iv[2], k)
    \/ \E p \in TTLProcs : CreateIdem(p)
    \/ \E p \in TTLProcs : CreateCheck(p)
    \/ \E p \in TTLProcs : CreateInsert(p)
    \/ \E p \in TTLProcs : CreateStore(p)
    \/ \E p \in TTLProcs : CreateAudit(p)
    \/ \E p \in TTLProcs, id \in DOMAIN bookings : Cancel(p, id)
    \/ IdemCleanup
    \/ \E t \in TTLNows : Tick(t)

SpecTTL == InitTTL /\ [][NextTTL]_vars

\* ---- keyed creation: one worker, requests one after the other, cancellations, the clock

InitIdem == InitOver(IdemProcs, Sweepers)

NextIdem ==
    \/ \E p \in IdemProcs, d \in IdemDesks, u \in Users, iv \in IdemIntervals, k \in Keys :
          CreateBegin(p, d, u, iv[1], iv[2], k)
    \/ \E p \in IdemProcs : CreateIdem(p)
    \/ \E p \in IdemProcs : CreateCheck(p)
    \/ \E p \in IdemProcs : CreateInsert(p)
    \/ \E p \in IdemProcs : CreateStore(p)
    \/ \E p \in IdemProcs : CreateAudit(p)
    \/ \E p \in IdemProcs, id \in DOMAIN bookings : Cancel(p, id)
    \/ \E t \in NowPoints : Tick(t)

SpecIdem == InitIdem /\ [][NextIdem]_vars

\* ---- the sweeper: two overlapping runs against creation, check-in and cancellation

InitSweep == InitOver(SweepProcs, SweepRuns)

NextSweep ==
    \/ \E p \in SweepProcs, d \in SweepDesks, u \in Users, iv \in SweepIntervals :
          CreateBegin(p, d, u, iv[1], iv[2], NoKey)
    \/ \E p \in SweepProcs : CreateCheck(p)
    \/ \E p \in SweepProcs : CreateInsert(p)
    \/ \E p \in SweepProcs : CreateAudit(p)
    \/ \E p \in SweepProcs, id \in DOMAIN bookings : CheckInBegin(p, id)
    \/ \E p \in SweepProcs : CheckInCommit(p)
    \/ \E p \in SweepProcs, id \in DOMAIN bookings : Cancel(p, id)
    \/ \E s \in SweepRuns : SweepSelect(s)
    \/ \E s \in SweepRuns, id \in DOMAIN bookings : SweepRow(s, id)
    \/ \E t \in NowPoints : Tick(t)

SpecSweep == InitSweep /\ [][NextSweep]_vars

\* ------------------------------------------------------------ properties

\* a status that keeps its row out of the way of other reservations
Inactive == {"cancelled", "no_show"}
Terminal == {"cancelled", "completed", "no_show"}

\* two half-open intervals share an instant
Intersect(s1, e1, s2, e2) == Max(s1, s2) < Min(e1, e2)

\* C1 (invariant I1): in every reachable state no two reservations on the same desk
\* whose statuses are both outside {cancelled, no_show} have intersecting intervals.
C1_NoOverlap ==
    \A i, j \in DOMAIN bookings :
        (/\ i # j
         /\ bookings[i].desk = bookings[j].desk
         /\ bookings[i].status \notin Inactive
         /\ bookings[j].status \notin Inactive)
        => ~Intersect(bookings[i].start, bookings[i].end,
                      bookings[j].start, bookings[j].end)

\* C1 witness: two active reservations share a desk and a request for an interval that
\* intersects them has been turned away with a conflict.
C1_Witness ==
    /\ \E i, j \in DOMAIN bookings :
          /\ i # j
          /\ bookings[i].desk = bookings[j].desk
          /\ bookings[i].status \notin Inactive
          /\ bookings[j].status \notin Inactive
    /\ \E p \in DOMAIN proc : proc[p].pc = "done" /\ proc[p].res = "conflict"

\* C2: concurrent policy-valid creations for pairwise intersecting intervals on one desk
\* with nothing active beforehand: every racer ends in success or conflict, never more
\* than one in success, and once all have returned exactly one has succeeded and the
\* table holds exactly its row.
C2_ExactlyOneWins ==
    LET racers == {p \in DOMAIN proc : proc[p].op = "create" /\ proc[p].pc = "done"}
        won == {p \in racers : proc[p].res = "ok"}
    IN  /\ \A p \in racers : proc[p].res \in {"ok", "conflict"}
        /\ Cardinality(won) <= 1
        /\ racers = DOMAIN proc => Cardinality(won) = 1 /\ Len(bookings) = 1

\* C2 witness: all three racers have returned, one with the booking and two with conflict.
C2_Witness ==
    /\ \A p \in DOMAIN proc : proc[p].op = "create" /\ proc[p].pc = "done"
    /\ Cardinality({p \in DOMAIN proc : proc[p].res = "conflict"}) = 2
    /\ Cardinality({p \in DOMAIN proc : proc[p].res = "ok"}) = 1

\* C3: terminal statuses are absorbing: no step changes the status of a reservation that
\* is cancelled, completed or no_show.
C3_TerminalAbsorbing ==
    [][\A i \in DOMAIN bookings :
          bookings[i].status \in Terminal => bookings'[i].status = bookings[i].status]_vars

C5_SameResultTwice ==
    \A p \in DOMAIN proc :
        (now = 0 /\ proc[p].op = "create" /\ proc[p].pc = "done" /\ proc[p].replay)
        => /\ proc[p].res = "ok"
           /\ proc[p].id = idem[proc[p].key].id
           /\ Cardinality({i \in DOMAIN bookings :
                   /\ bookings[i].desk = idem[proc[p].key].desk
                   /\ bookings[i].user = idem[proc[p].key].user
                   /\ bookings[i].start = idem[proc[p].key].start
                   /\ bookings[i].end = idem[proc[p].key].end}) = 1

\* C6: replay short-circuit: a Create whose key has a cached result is never rejected
\* by validation, never reaches the availability check, the insert, the cache write or
\* the audit entry, and returns the cached booking without writing.
C6_ReplayShortCircuit ==
    \A p \in DOMAIN proc :
        proc[p].replay
        => /\ proc[p].pc \in {"idem", "done"}
           /\ proc[p].res \notin ValidationErrors
           /\ proc[p].pc = "done"
                  => proc[p].res = "ok" /\ proc[p].id = idem[proc[p].key].id
                     /\ ~proc[p].wrote

\* no reservation on the desk that is outside {cancelled, no_show} intersects [start, end)
NoActiveIntersects(desk, start, end) ==
    \A j \in DOMAIN bookings :
        (bookings[j].desk = desk /\ bookings[j].status \notin Inactive)
        => ~Intersect(bookings[j].start, bookings[j].end, start, end)

\* some cancelled or no_show reservation on the desk intersects [start, end)
InactiveIntersects(desk, start, end) ==
    \E j \in DOMAIN bookings :
        /\ bookings[j].desk = desk
        /\ bookings[j].status \in Inactive
        /\ Intersect(bookings[j].start, bookings[j].end, start, end)

\* C7: cancelled and no_show reservations never block: a validated creation whose
\* interval intersects such a reservation, and no reservation of another status on the
\* desk, passes the availability check and the insert.
C7_InactiveNeverBlocks ==
    [][\A p \in DOMAIN proc :
          (/\ proc[p].op = "create"
           /\ proc[p].pc \in {"check", "insert"}
           /\ proc'[p] # proc[p]
           /\ InactiveIntersects(proc[p].desk, proc[p].start, proc[p].end)
           /\ NoActiveIntersects(proc[p].desk, proc[p].start, proc[p].end))
          => /\ proc'[p].res # "conflict"
             /\ proc[p].pc = "insert" => Len(bookings') = Len(bookings) + 1]_vars

\* C7 witness: a creation has succeeded on a desk and interval that a reservation
\* swept to no_show lies across.
C7_Witness ==
    \E p \in DOMAIN proc :
        /\ proc[p].op = "create" /\ proc[p].pc = "done" /\ proc[p].res = "ok"
        /\ \E i \in DOMAIN bookings :
              /\ bookings[i].status = "no_show"
              /\ bookings[i].desk = bookings[proc[p].id].desk
              /\ Intersect(bookings[i].start, bookings[i].end,
                           bookings[proc[p].id].start, bookings[proc[p].id].end)

\* what a reservation occupies once it has been ended early: [start, actualEnd)
OccupiedEnd(row) ==
    IF row.status = "completed" /\ row.actualEnd # Nil THEN Min(row.actualEnd, row.end)
    ELSE row.end

\* no reservation outside {cancelled, no_show} on the desk occupies an instant of [start, end)
NoOccupantIntersects(desk, start, end) ==
    \A j \in DOMAIN bookings :
        (bookings[j].desk = desk /\ bookings[j].status \notin Inactive)
        => ~Intersect(bookings[j].start, OccupiedEnd(bookings[j]), start, end)

\* some reservation on the desk was ended early at an instant t of its interval and
\* [start, end) lies inside the part [t, its end) that it gave back
InsideReleasedPart(desk, start, end) ==
    \E j \in DOMAIN bookings :
        /\ bookings[j].desk = desk
        /\ bookings[j].status = "completed"
        /\ bookings[j].actualEnd # Nil
        /\ bookings[j].start <= bookings[j].actualEnd
        /\ bookings[j].actualEnd <= start
        /\ start < end
        /\ end <= bookings[j].end

\* C8: end-early frees capacity: a validated creation whose interval lies inside the
\* part [t, end) given back by a reservation ended early at t, and meets nothing that
\* is still occupied on the desk, passes the availability check and the insert.
C8_EndEarlyFrees ==
    [][\A p \in DOMAIN proc :
          (/\ proc[p].op = "create"
           /\ proc[p].pc \in {"check", "insert"}
           /\ proc'[p] # proc[p]
           /\ InsideReleasedPart(proc[p].desk, proc[p].start, proc[p].end)
           /\ NoOccupantIntersects(proc[p].desk, proc[p].start, proc[p].end))
          => proc'[p].res # "conflict"]_vars

\* C9: the sweeper moves a reservation to no_show only if, at that step, it is still
\* confirmed and still has no check-in.
C9_SweepOnlyUnchecked ==
    [][\A i \in DOMAIN bookings :
          (bookings'[i].status = "no_show" /\ bookings[i].status # "no_show")
          => bookings[i].status = "confirmed" /\ bookings[i].checkedInAt = Nil]_vars

\* entries of the multiset m under key k
CountOf(m, k) == IF k \in DOMAIN m THEN m[k] ELSE 0

\* C10: however the sweep runs follow or overlap each other, a reservation gets at most
\* one no-show audit entry and at most one notification, one of each per transition, and
\* a reservation that is no_show has exactly one.
C10_SweepOnce ==
    \A i \in DOMAIN bookings :
        /\ CountOf(audit, <<i, "no_show">>) <= 1
        /\ CountOf(notified, i) <= 1
        /\ CountOf(audit, <<i, "no_show">>) = CountOf(notified, i)
        /\ bookings[i].status = "no_show" => CountOf(audit, <<i, "no_show">>) = 1

\* C10 witness: a reservation is already no_show, with its one audit entry, while
\* another sweep run still holds it in its selection.
C10_Witness ==
    \E s \in DOMAIN sweep, i \in DOMAIN bookings :
        /\ sweep[s].pc = "rows"
        /\ i \in sweep[s].sel
        /\ bookings[i].status = "no_show"
        /\ CountOf(audit, <<i, "no_show">>) = 1

\* the rows a sweep cycle started at time t is due to mark
DueAt(t) ==
    {i \in DOMAIN bookings :
        /\ bookings[i].status = "confirmed"
        /\ bookings[i].checkedInAt = Nil
        /\ bookings[i].start + GracePeriod <= t}

\* C11: a sweep cycle selects exactly the confirmed, never checked-in reservations whose
\* start + grace window has passed; when it is done with a selected reservation that
\* reservation is no longer confirmed; and it never marks a reservation whose
\* start + grace window is still ahead of the clock.
C11_SweepCycle ==
    [][/\ \A s \in DOMAIN sweep :
             (sweep[s].pc = "idle" /\ sweep'[s].pc = "rows") => sweep'[s].sel = DueAt(now)
       /\ \A s \in DOMAIN sweep : \A i \in sweep[s].sel \ sweep'[s].sel :
             bookings'[i].status # "confirmed"
       /\ \A i \in DOMAIN bookings :
             (bookings'[i].status = "no_show" /\ bookings[i].status # "no_show")
             => bookings[i].start + GracePeriod <= now]_vars

\* the reservations on a desk that block an interval: status outside cancelled/no_show,
\* not the excluded one, sharing at least one instant with the interval
Blockers(desk, start, end, excludeId) ==
    {i \in DOMAIN bookings :
        /\ bookings[i].desk = desk
        /\ bookings[i].status \notin Inactive
        /\ i # excludeId
        /\ Intersect(bookings[i].start, bookings[i].end, start, end)}

\* C12: for every desk, interval and excluded reservation (or none), the availability
\* query answers true exactly when no reservation of that desk with a status other than
\* cancelled or no_show, apart from the excluded one, intersects the interval.
C12_AvailableIffNoBlocker ==
    \A d \in Desks, iv \in Intervals, x \in DOMAIN bookings \cup {Nil} :
        IsDeskAvailable(bookings, d, iv[1], iv[2], x) <=> Blockers(d, iv[1], iv[2], x) = {}

\* C12 witness: the exclusion decides (the only blocker is the excluded reservation),
\* while on the same table another query is refused and an inactive reservation
\* intersects a free interval.
C12_Witness ==
    /\ \E d \in Desks, iv \in Intervals, x \in DOMAIN bookings :
          /\ IsDeskAvailable(bookings, d, iv[1], iv[2], x)
          /\ ~ IsDeskAvailable(bookings, d, iv[1], iv[2], Nil)
    /\ \E d \in Desks, iv \in Intervals, x \in DOMAIN bookings :
          ~ IsDeskAvailable(bookings, d, iv[1], iv[2], x)
    /\ \E d \in Desks, iv \in Intervals, i \in DOMAIN bookings :
          /\ IsDeskAvailable(bookings, d, iv[1], iv[2], Nil)
          /\ bookings[i].desk = d
          /\ bookings[i].status \in Inactive
          /\ Intersect(bookings[i].start, bookings[i].end, iv[1], iv[2])

\* C13: cancelling a reservation that is already cancelled, completed or no_show
\* answers success and leaves every row as it was; cancelling an id that does not
\* exist answers not-found and changes no row either.
C13_CancelIdempotent ==
    [][\A p \in DOMAIN proc, id \in Ids :
          Cancel(p, id) =>
              /\ id \notin DOMAIN bookings =>
                    proc'[p].res = "notfound" /\ bookings' = bookings
              /\ (id \in DOMAIN bookings /\ bookings[id].status \in Terminal) =>
                    proc'[p].res = "ok" /\ bookings' = bookings]_vars

\* C13 witness: a cancellation answered success without writing, on a table that holds
\* a reservation in a terminal status.
C13_Witness ==
    \E p \in DOMAIN proc :
        /\ proc[p].op = "cancel" /\ proc[p].res = "ok" /\ ~ proc[p].wrote
        /\ \E i \in DOMAIN bookings : bookings[i].status \in Terminal

\* C14: cancelling a confirmed reservation at any time up to and including its start
\* succeeds, and its whole effect on the table is that this row gets status cancelled
\* and cancelledAt = now: the row stays, with its desk, holder, interval and every other
\* field, and no other row changes.
C14_CancelEffect ==
    [][\A p \in DOMAIN proc, id \in DOMAIN bookings :
          (Cancel(p, id) /\ bookings[id].status = "confirmed" /\ now <= bookings[id].start)
          => /\ proc'[p].res = "ok"
             /\ bookings' = [bookings EXCEPT ![id] =
                                [desk |-> bookings[id].desk, user |-> bookings[id].user,
                                 start |-> bookings[id].start, end |-> bookings[id].end,
                                 status |-> "cancelled",
                                 checkedInAt |-> bookings[id].checkedInAt,
                                 actualEnd |-> bookings[id].actualEnd,
                                 cancelledAt |-> now]]]_vars

\* C14 witness: a reservation cancelled at the very instant of its start.
C14_Witness ==
    \E p \in DOMAIN proc, i \in DOMAIN bookings :
        /\ proc[p].op = "cancel" /\ proc[p].res = "ok" /\ proc[p].wrote
        /\ bookings[i].status = "cancelled"
        /\ bookings[i].cancelledAt = bookings[i].start
        /\ now = bookings[i].start

\* C15: a check-in of an existing reservation is accepted exactly when now lies in the
\* closed window [start - grace, start + grace]; before the window it is refused as
\* too early, after it as too late, and a refused check-in changes no row and logs
\* nothing.
C15_CheckInWindow ==
    [][\A p \in DOMAIN proc, id \in DOMAIN bookings :
          CheckInBegin(p, id) =>
              /\ proc'[p].pc = "checkin"
                    <=> (bookings[id].start - GracePeriod <= now
                         /\ now <= bookings[id].start + GracePeriod)
              /\ now < bookings[id].start - GracePeriod =>
                    proc'[p].res = "too_early" /\ bookings' = bookings /\ audit' = audit
              /\ now > bookings[id].start + GracePeriod =>
                    proc'[p].res = "too_late" /\ bookings' = bookings /\ audit' = audit]_vars

\* C15 witness: one reservation was checked in at exactly start + grace, and a minute
\* later (start + 16 minutes) a check-in is refused as too late.
C15_Witness ==
    \E p \in DOMAIN proc, i \in DOMAIN bookings :
        /\ bookings[i].checkedInAt = bookings[i].start + GracePeriod
        /\ proc[p].op = "checkin" /\ proc[p].res = "too_late"
        /\ now = bookings[i].start + GracePeriod + 60

\* C16: once a reservation has a checkedInAt, no step of any operation (a second
\* check-in, modify, cancel, end-early, sweep) changes or clears it, and the step that
\* sets it leaves the status as it was.
C16_CheckedInOnce ==
    [][\A i \in DOMAIN bookings :
          /\ bookings[i].checkedInAt # Nil
                => bookings'[i].checkedInAt = bookings[i].checkedInAt
          /\ bookings'[i].checkedInAt # bookings[i].checkedInAt
                => bookings'[i].status = bookings[i].status]_vars

\* C16 witness: a checked-in reservation on which a later operation has acted: it was
\* moved to a later interval after its check-in, or has left the confirmed status.
C16_Witness ==
    \E i \in DOMAIN bookings :
        /\ bookings[i].checkedInAt # Nil
        /\ \/ bookings[i].status \in Terminal
           \/ bookings[i].checkedInAt < bookings[i].start - GracePeriod

\* C17: an end-early request on a reservation that is confirmed with start <= now <= end
\* sets actualEnd = now and status = completed and nothing else; on any other
\* reservation it is refused and changes no row.
C17_EndEarlyGuard ==
    [][\A p \in DOMAIN proc, id \in DOMAIN bookings :
          EndBookingEarly(p, id) =>
              IF /\ bookings[id].status = "confirmed"
                 /\ bookings[id].start <= now
                 /\ now <= bookings[id].end
                  THEN bookings' = [bookings EXCEPT ![id].actualEnd = now,
                                                    ![id].status = "completed"]
              ELSE bookings' = bookings /\ proc'[p].res # "ok"]_vars

\* the last bookable second seen from t: Sunday 23:59:59 of the week after the Monday to
\* Sunday week that contains t
WindowEnd(t) == ((t \div WeekS) + 2) * WeekS - 1

\* C18: at every clock value, a start passes the booking-window check exactly when
\* now <= start <= Sunday 23:59:59 of the week after the current week; an earlier start
\* is refused as past, a later one as outside the window. The start at that Sunday
\* 23:59:59 passes and the start one second later, Monday 00:00:00, does not.
C18_BookingWindow ==
    /\ \A st \in WindowStarts :
          /\ validateBookingWindow(st, now) = "ok" <=> (now <= st /\ st <= WindowEnd(now))
          /\ validateBookingWindow(st, now) = "past" <=> st < now
          /\ validateBookingWindow(st, now) = "window" <=> (now <= st /\ st > WindowEnd(now))
    /\ validateBookingWindow(WindowEnd(now), now) = "ok"
    /\ validateBookingWindow(WindowEnd(now) + 1, now) = "window"

\* C18 witness: a reservation that starts on Sunday 23:59:59 of week 2 exists, which
\* only a request made in week 1 can have created, and with the clock on Monday
\* 00:00:00 of week 1 the latest request, for a later start, was refused as outside
\* the window.
C18_Witness ==
    /\ now = WeekS
    /\ \E i \in DOMAIN bookings : bookings[i].start = WindowEnd(now)
    /\ \E p \in DOMAIN proc : proc[p].op = "create" /\ proc[p].res = "window"

\* the hours of calendar day `day` that lie inside a confirmed or completed reservation
\* of the holder, one entry per reservation and hour
BookedHours(user, day) ==
    {<<i, h>> \in (DOMAIN bookings) \X (0 .. 23) :
        /\ bookings[i].user = user
        /\ bookings[i].status \in {"confirmed", "completed"}
        /\ bookings[i].start <= day * DayS + h * HourS
        /\ day * DayS + (h + 1) * HourS <= bookings[i].end}

\* the holder's booked time on a calendar day, clipped to that day
DayTotal(user, day) == Cardinality(BookedHours(user, day)) * HourS

\* C19: a creation that passes the window check is refused for the daily limit exactly
\* when the holder's confirmed and completed time on the day that contains the new
\* start, clipped to that day, plus the new duration is more than the daily limit;
\* reaching the limit exactly is accepted.
C19_DailyLimit ==
    [][\A p \in DOMAIN proc, d \in DailyDesks, u \in Users, iv \in DailyIntervals :
          (CreateBegin(p, d, u, iv[1], iv[2], NoKey)
           /\ validateBookingWindow(iv[1], now) = "ok")
          => (proc'[p].res = "daily"
              <=> DayTotal(u, iv[1] \div DayS) + (iv[2] - iv[1]) > DailyLimit)]_vars

\* C19 witness: the holder's day 0 is booked up to the limit exactly, so the request that
\* reached the limit was accepted, and the next request was refused for the limit.
C19_Witness ==
    /\ \E u \in Users : DayTotal(u, 0) = DailyLimit
    /\ \E p \in DOMAIN proc : proc[p].op = "create" /\ proc[p].res = "daily"

\* C20: for the holder and every calendar day, the day after a reservation that spans
\* midnight included, the confirmed and completed time clipped to that day is at most
\* the daily limit.
C20_DailyTotalBounded ==
    \A u \in Users, day \in DailyDays : DayTotal(u, day) <= DailyLimit

\* C21: on every calendar day the holder's clipped confirmed and completed time is
\* within the daily limit, or over it by no more than the duration of one of the
\* holder's reservations of that day.
C21_ExcessOneReservation ==
    \A u \in Users, day \in DailyDays :
        \/ DayTotal(u, day) <= DailyLimit
        \/ \E i \in DOMAIN bookings :
              /\ bookings[i].user = u
              /\ bookings[i].status \in {"confirmed", "completed"}
              /\ bookings[i].start \div DayS = day
              /\ DayTotal(u, day) - DailyLimit <= bookings[i].end - bookings[i].start

\* C22: every stored reservation has start < end and a duration of at least 30 minutes
\* and at most 12 hours, whichever creations and modifications of the start, of the end
\* or of both were accepted before.
C22_DurationBounds ==
    \A i \in DOMAIN bookings :
        /\ bookings[i].start < bookings[i].end
        /\ MinDuration <= bookings[i].end - bookings[i].start
        /\ bookings[i].end - bookings[i].start <= MaxDuration

\* C22 witness: a reservation was modified successfully and now lasts exactly 30
\* minutes, and the latest modification was refused for its duration.
C22_Witness ==
    /\ \E i \in DOMAIN bookings :
          /\ bookings[i].end - bookings[i].start = MinDuration
          /\ CountOf(audit, <<i, "updated">>) >= 1
    /\ \E p \in DOMAIN proc : proc[p].op = "modify" /\ proc[p].res = "duration"

\* C23: a create request reaches the insert only from the fast check and leaves it in
\* one step: either the row is stored, or the table is unchanged and the request is
\* finished; when the insert reported a conflict the finished request carries the same
\* conflict response, with the suggestions generated then, as a failed fast check, and
\* it has no reservation id.
C23_InsertConflictFails ==
    [][\A p \in DOMAIN proc :
          /\ (proc'[p].pc = "insert" /\ proc[p].pc # "insert") => proc[p].pc = "check"
          /\ (proc[p].op = "create" /\ proc[p].pc = "insert" /\ proc'[p] # proc[p]) =>
                \/ /\ Len(bookings') = Len(bookings) + 1
                   /\ proc'[p].pc \in {"store", "audit"}
                \/ /\ bookings' = bookings
                   /\ proc'[p].pc = "done"
                   /\ proc'[p].id = 0 /\ ~ proc'[p].wrote
                   /\ proc'[p].res # "ok"
                   /\ ~ IsDeskAvailable(bookings, proc[p].desk, proc[p].start,
                                        proc[p].end, Nil)
                         => proc'[p] = ConflictError("create", proc[p].key, proc[p].replay,
                                           generateSuggestions(bookings, deskStatus,
                                               proc[p].desk, proc[p].start,
                                               proc[p].end))]_vars

\* C23 witness: a request has passed the fast check and stands before its insert while
\* a concurrent writer has already stored an intersecting reservation, and another
\* request has been refused with a conflict that suggests the other desk.
C23_Witness ==
    /\ \E p \in DOMAIN proc :
          /\ proc[p].op = "create" /\ proc[p].pc = "insert"
          /\ ~ IsDeskAvailable(bookings, proc[p].desk, proc[p].start, proc[p].end, Nil)
    /\ \E q \in DOMAIN proc :
          /\ proc[q].res = "conflict"
          /\ proc[q].sugg.desks # <<>>

\* C24: when a Modify to a desk and an interval is answered with success, the same
\* reservation id is stored with the requested desk and interval, and no row is added
\* or removed.
C24_ModifyMovesResource ==
    [][\A p \in DOMAIN proc :
          (/\ proc[p].op = "modify" /\ proc[p].pc = "update" /\ proc[p].desk \in Desks
           /\ proc'[p].pc = "done" /\ proc'[p].res = "ok")
          => /\ Len(bookings') = Len(bookings)
             /\ bookings'[proc[p].id].desk = proc[p].desk
             /\ bookings'[proc[p].id].start = proc[p].start
             /\ bookings'[proc[p].id].end = proc[p].end]_vars

C26_AuditComplete ==
    [][/\ \A p \in DOMAIN proc :
             (proc[p].op = "create" /\ proc[p].pc # "done"
              /\ proc'[p].pc = "done" /\ proc'[p].res = "ok")
             => CountOf(audit', <<proc'[p].id, "created">>) >= 1
       /\ \A p \in DOMAIN proc :
             (proc[p].op = "modify" /\ proc[p].pc = "update"
              /\ proc'[p].pc = "done" /\ proc'[p].res = "ok")
             => CountOf(audit', <<proc[p].id, "updated">>) >= 1
       /\ \A p \in DOMAIN proc :
             (proc[p].op = "checkin" /\ proc[p].pc = "checkin"
              /\ proc'[p].pc = "done" /\ proc'[p].res = "ok")
             => CountOf(audit', <<proc[p].id, "checked_in">>) >= 1
       /\ \A p \in DOMAIN proc, id \in DOMAIN bookings :
             (Cancel(p, id) /\ bookings'[id] # bookings[id])
             => CountOf(audit', <<id, "cancelled">>) >= 1
       /\ \A p \in DOMAIN proc, id \in DOMAIN bookings :
             (EndBookingEarly(p, id) /\ proc'[p].res = "ok")
             => CountOf(audit', <<id, "completed">>) >= 1
       /\ \A i \in DOMAIN bookings :
             (bookings'[i].status = "no_show" /\ bookings[i].status # "no_show")
             => CountOf(audit', <<i, "no_show">>) >= 1]_vars

\* suggestions sg for a request of desk, start, end are within the limits and sound on
\* the present table: every suggested desk is in service and has no active reservation
\* intersecting the requested interval; every suggested slot lies within the calendar
\* day of the requested start and intersects no active reservation of the requested desk
SoundSuggestions(sg, desk, start, end) ==
    /\ Len(sg.desks) <= MaxAltDesks
    /\ \A k \in DOMAIN sg.desks :
          /\ sg.desks[k] \in DOMAIN deskStatus
          /\ deskStatus[sg.desks[k]] # "maintenance"
          /\ Blockers(sg.desks[k], start, end, Nil) = {}
    /\ Len(sg.times) <= MaxAltTimes
    /\ \A k \in DOMAIN sg.times :
          /\ sg.times[k][1] < sg.times[k][2]
          /\ sg.times[k][1] \div DayS = start \div DayS
          /\ sg.times[k][2] <= ((start \div DayS) + 1) * DayS
          /\ Blockers(desk, sg.times[k][1], sg.times[k][2], Nil) = {}

\* C27: whenever a create or a modify is refused for availability, by the fast check or
\* by the authoritative write, the suggestions of the response are within the limits of
\* five desks and three slots and sound at that instant; a response that is not a
\* conflict carries none.
C27_SuggestionsSound ==
    [][/\ \A p \in DOMAIN proc :
             (proc[p].op = "create" /\ proc[p].pc \in {"check", "insert"}
              /\ proc'[p].res = "conflict")
             => /\ bookings' = bookings
                /\ SoundSuggestions(proc'[p].sugg, proc[p].desk, proc[p].start, proc[p].end)
       /\ \A p \in DOMAIN proc, id \in DOMAIN bookings, iv \in Intervals :
             (ModifyBegin(p, id, iv[1], iv[2]) /\ proc'[p].res = "conflict")
             => SoundSuggestions(proc'[p].sugg, bookings[id].desk, iv[1], iv[2])
       /\ \A p \in DOMAIN proc :
             (proc[p].op = "modify" /\ proc[p].pc = "update" /\ proc'[p].res = "conflict")
             => /\ bookings' = bookings
                /\ SoundSuggestions(proc'[p].sugg, bookings[proc[p].id].desk,
                                    proc[p].start, proc[p].end)
       /\ \A p \in DOMAIN proc :
             proc'[p].res # "conflict" => proc'[p].sugg = NoSuggestions]_vars

\* C27 witness: a refused request carries exactly five desks although six were free and
\* in service, and exactly three slots, while one desk is under maintenance.
C27_Witness ==
    \E p \in DOMAIN proc :
        /\ proc[p].res = "conflict"
        /\ Len(proc[p].sugg.desks) = MaxAltDesks
        /\ Len(proc[p].sugg.times) = MaxAltTimes
        /\ Cardinality({d \in DOMAIN deskStatus : deskStatus[d] = "available"}) > MaxAltDesks + 1
        /\ \E d \in DOMAIN deskStatus : deskStatus[d] = "maintenance"

\* whether RefreshToken(tok), run alone from a state with these tables at time t,
\* returns tokens: the token verifies, its session is stored and unexpired, and the
\* session's user is active
Accepted(tbl, us, tok, t) ==
    /\ ValidateRefreshToken(tok, t)
    /\ GetSessionByRefreshToken(tbl, tok, t) # Nil
    /\ us[tbl[GetSessionByRefreshToken(tbl, tok, t)].user] = "active"

\* C28: once a RefreshToken call on token t has returned a new token, t is never
\* accepted again, and at the moment the call returns the token it hands out is accepted.
C28_Rotation ==
    /\ [](\A t \in rotated : ~Accepted(sessions, users, t, now))
    /\ [][\A p \in AuthProcs :
             (RefreshCreate(p) /\ authProc'[p].res = "ok")
             => Accepted(sessions', users', authProc'[p].out, now')]_vars

\* C29: a Login for a disabled user, whatever the password, and the user lookup of a
\* RefreshToken whose stored, unexpired session belongs to a disabled user, answer
\* user-disabled, hand out no token and leave the sessions table as it is; the steps of
\* RefreshToken before that lookup never touch the table.
C29_DisabledRefused ==
    [][/\ \A p \in AuthProcs, u \in AuthUsers, ok \in BOOLEAN :
             (LoginBegin(p, u, ok) /\ users[u] = "disabled")
             => /\ authProc'[p].pc = "idle"
                /\ authProc'[p].res = "user_disabled"
                /\ sessions' = sessions /\ issued' = issued
       /\ \A p \in AuthProcs, tok \in ClientTokens :
             RefreshBegin(p, tok) => (sessions' = sessions /\ issued' = issued)
       /\ \A p \in AuthProcs :
             (RefreshUser(p) /\ users[authProc[p].user] = "disabled")
             => /\ authProc'[p].pc = "idle"
                /\ authProc'[p].res = "user_disabled"
                /\ sessions' = sessions /\ issued' = issued]_vars

\* both refusals side by side: a Login and a RefreshToken answered user-disabled while
\* the disabled user's session is still stored and unexpired
C29_Witness ==
    \E p, q \in AuthProcs, i \in LiveIds(sessions) :
        /\ authProc[p].op = "login" /\ authProc[p].res = "user_disabled"
        /\ authProc[q].op = "refresh" /\ authProc[q].res = "user_disabled"
        /\ users[sessions[i].user] = "disabled"
        /\ Accepted(sessions, [u \in AuthUsers |-> "active"], sessions[i].token, now)

\* C30: a refresh token that a finished LogoutAll covers (issued to that user before
\* the call, or obtained by rotating such a token) is never accepted afterwards.
C30_LogoutAllRevokes ==
    \A t \in loggedOut : ~Accepted(sessions, users, t, now)

\* C31: creations carrying one idempotency key and one payload, in any interleaving,
\* store at most one reservation, none of them is answered with a conflict, and any
\* two answers name the same result and the same reservation.
C31_KeyedCreateOnce ==
    /\ Len(bookings) <= 1
    /\ \A p \in DOMAIN proc :
          (proc[p].op = "create" /\ proc[p].pc = "done" /\ proc[p].key # NoKey)
          => proc[p].res # "conflict"
    /\ \A p, q \in DOMAIN proc :
          (/\ proc[p].op = "create" /\ proc[p].pc = "done"
           /\ proc[q].op = "create" /\ proc[q].pc = "done"
           /\ proc[p].key # NoKey /\ proc[p].key = proc[q].key)
          => (proc[p].res = proc[q].res /\ proc[p].id = proc[q].id)

\* C32: no reservation is no_show with checkedInAt set, and the write of a check-in
\* on a reservation that is not confirmed is refused and leaves the table as it is.
C32_CheckInConfirmedOnly ==
    /\ [](\A i \in DOMAIN bookings :
             bookings[i].status = "no_show" => bookings[i].checkedInAt = Nil)
    /\ [][\A p \in DOMAIN proc :
             (CheckInCommit(p) /\ bookings[proc[p].id].status # "confirmed")
             => (proc'[p].res # "ok" /\ bookings' = bookings)]_vars

\* C33: a desk under maintenance holds no confirmed reservation whose interval has
\* not ended.
C33_NoConfirmedUnderMaintenance ==
    \A i \in DOMAIN bookings :
        (deskStatus[bookings[i].desk] = "maintenance" /\ bookings[i].status = "confirmed")
        => bookings[i].end <= now

\* C34: a creation is answered with a conflict, at its availability check or at its
\* insert, only if at that moment a reservation of the same desk outside cancelled and
\* no_show shares an instant with the requested interval; reservations of other desks,
\* and reservations of the same desk that end where the request starts or start where
\* it ends, never make it fail.
C34_ConflictOnlyOnIntersection ==
    [][\A p \in DOMAIN proc :
          (/\ proc[p].op = "create"
           /\ proc[p].pc \in {"check", "insert"}
           /\ proc'[p].res = "conflict")
          => Blockers(proc[p].desk, proc[p].start, proc[p].end, Nil) # {}]_vars

\* C34 witness: both workers were answered with their own reservation, the two are
\* back to back on one desk, and a third reservation holds the same interval as one
\* of them on the other desk.
C34_Witness ==
    \E p, q \in DOMAIN proc, k \in DOMAIN bookings :
        /\ p # q
        /\ proc[p].op = "create" /\ proc[p].res = "ok"
        /\ proc[q].op = "create" /\ proc[q].res = "ok"
        /\ proc[p].id \in DOMAIN bookings /\ proc[q].id \in DOMAIN bookings
        /\ bookings[proc[p].id].desk = bookings[proc[q].id].desk
        /\ bookings[proc[p].id].end = bookings[proc[q].id].start
        /\ bookings[k].desk # bookings[proc[p].id].desk
        /\ bookings[k].start = bookings[proc[p].id].start
        /\ bookings[k].end = bookings[proc[p].id].end

\* C35: a row transaction that fails takes only its own reservation out of the cycle
\* and changes nothing else; the cycle ends only when no selected reservation is left;
\* and every selected reservation leaves the cycle either through its own failed
\* transaction or in a status other than confirmed.
C35_FailureDoesNotStopCycle ==
    [][\A s \in DOMAIN sweep :
          /\ \A i \in DOMAIN bookings :
                SweepRowFail(s, i) =>
                    /\ sweep'[s].sel = sweep[s].sel \ {i}
                    /\ sweep'[s].pc = IF sweep[s].sel = {i} THEN "idle" ELSE "rows"
                    /\ bookings' = bookings
          /\ (sweep[s].pc = "rows" /\ sweep'[s].pc = "idle")
                => Cardinality(sweep[s].sel) = 1
          /\ \A i \in sweep[s].sel \ sweep'[s].sel :
                \/ i \in sweep'[s].failed \ sweep[s].failed
                \/ bookings'[i].status # "confirmed"]_vars

\* C35 witness: a finished cycle in which the transaction of one selected reservation
\* failed, so that it is still confirmed and due, while another reservation became
\* no_show with its audit entry.
C35_Witness ==
    \E s \in DOMAIN sweep, i, j \in DOMAIN bookings :
        /\ sweep[s].pc = "idle"
        /\ sweep[s].failed = {i}
        /\ bookings[i].status = "confirmed" /\ bookings[i].checkedInAt = Nil
        /\ bookings[i].start + GracePeriod <= now
        /\ j # i
        /\ bookings[j].status = "no_show"
        /\ CountOf(audit, <<j, "no_show">>) = 1

OthersTotal(user, id, day) ==
    Cardinality({x \in BookedHours(user, day) : x[1] # id}) * HourS

\* C37: a modification is refused for the daily limit only if the holder's other
\* confirmed and completed reservations on the day of the new start, clipped to that
\* day, plus the new duration are more than the daily limit.
C37_ModifyExcludesOwn ==
    [][\A p \in DOMAIN proc, id \in DOMAIN bookings, iv \in DailyIntervals :
          (ModifyBegin(p, id, iv[1], iv[2]) /\ proc'[p].res = "daily")
          => OthersTotal(bookings[id].user, id, iv[1] \div DayS) + (iv[2] - iv[1])
                 > DailyLimit]_vars

\* C38: of the RefreshToken calls that read one session, at most one gets past
\* DeleteSession, and at most one session was made by rotating that session.
C38_OneRotationPerSession ==
    /\ \A p, q \in AuthProcs :
          (/\ p # q
           /\ authProc[p].op = "refresh" /\ authProc[p].pc = "create"
           /\ authProc[q].op = "refresh" /\ authProc[q].pc = "create")
          => authProc[p].sid # authProc[q].sid
    /\ \A sid \in DOMAIN sessions :
          Cardinality({i \in DOMAIN sessions : sessions[i].parent = sid}) <= 1

\* C38 witness: two calls presented the token of one session side by side; one was
\* answered with a token pair and its new session is stored, the other found the
\* session gone at DeleteSession and was refused.
C38_Witness ==
    \E p, q \in AuthProcs, i \in LiveIds(sessions) :
        /\ authProc[p].op = "refresh" /\ authProc[p].res = "ok"
        /\ authProc[q].op = "refresh" /\ authProc[q].res = "session_not_found"
        /\ sessions[i].parent # Nil
        /\ sessions[i].token = authProc[p].out
        /\ sessions[i].token # sessions[sessions[i].parent].token

\* C39: the refresh token handed out by a successful Login or RefreshToken was never
\* issued before, Login's CreateSession never fails on a token that is already stored,
\* and a rotation never hands back the token it replaces.
C39_FreshTokens ==
    [][/\ \A p \in AuthProcs :
             LoginCreate(p)
             => /\ authProc'[p].res = "ok"
                /\ authProc'[p].out \notin issued
       /\ \A p \in AuthProcs :
             (RefreshCreate(p) /\ authProc'[p].res = "ok")
             => /\ authProc'[p].out \notin issued
                /\ authProc'[p].out # authProc[p].token]_vars

\* C40: a successful RefreshToken issues its tokens with the role its GetUserByID read
\* from the users table, so a call made after a role change carries the new role.
C40_RefreshCarriesStoredRole ==
    [][\A p \in AuthProcs :
          (RefreshCreate(p) /\ authProc'[p].res = "ok")
          => authProc'[p].out.role = authProc[p].role]_vars

====
